---- MODULE Spec2Model ----
(***************************************************************************)
(* VANTIX-OMEGA orchestration runtime: the kernel scheduler                *)
(* (services/kernel.ts: OmegaKernel), the per-task agent execution loop    *)
(* (services/agents.ts: Agent.execute), the capability check               *)
(* (services/security.ts) and the tool registry (services/tools.ts).       *)
(*                                                                         *)
(* Spec      - the kernel: dispatchTask, tick, runProcess cut at each of   *)
(*             its awaits, boot and a reload of the page (a new kernel     *)
(*             instance over the same Durable Store), with failing         *)
(*             collaborators and a few tasks.                              *)
(* SpecLoad  - the same kernel with more tasks than process slots and      *)
(*             collaborators that do not fail.                             *)
(* SpecAgent - one Agent.execute invocation, turn by turn and tool call by *)
(*             tool call.                                                  *)
(* SpecInference, SpecMemory, SpecVector - the Inference Service calls,    *)
(*             MemoryService and cosineSimilarity over bounded inputs.     *)
(* SpecLog, SpecClear, SpecLive, SpecUpdate - the log list and its         *)
(*             restoration, the kernel next to clearMemory, one kernel     *)
(*             instance under fair scheduling, updateTaskStatus alone.     *)
(***************************************************************************)
EXTENDS Integers, Sequences, FiniteSets, TLC

(* ------------------------------ bounds --------------------------------- *)
\* Task ids ever issued (uuidv4 values), over all kernel instances: under Spec,
\* and under SpecLoad (more than MAX_CONCURRENT_PROCESSES).
MaxTasks == 2
LoadTasks == 6
\* Page reloads: each constructs a new OmegaKernel over the same IndexedDB.
MaxBoots == 1
LoadBoots == 1
\* Under SpecLoad the page is reloaded before more than this many ids were issued.
LoadReloadBy == 1
\* Failures of a collaborator (a rejected Durable Store call, an inference
\* call that raises, an unsafe verdict of the pre-flight scan).
MaxFaults == 2
\* Drafts that name an assignedAgent (the others default to PLANNER).
MaxExplicitRole == 1
\* Executions whose last response carries no text.
MaxTextless == 1

(* ------------------------- program constants --------------------------- *)
MAX_CONCURRENT_PROCESSES == 5

TaskIds == 1..(IF LoadTasks > MaxTasks THEN LoadTasks ELSE MaxTasks)

AgentType ==
    {"PLANNER", "REASONING", "CODING", "AUTOMATION", "SECURITY",
     "VOICE", "VISION", "MEMORY", "MONITORING"}

\* An assignedAgent for which initializeRuntime built no Agent instance
\* (the draft's field is a free string at run time).
UnknownRole == "ROGUE"

\* The roles a draft may name explicitly.
DraftRoles == {"CODING", UnknownRole}

\* `undefined` for the optional fields result / currentTask.
Undefined == <<>>

\* The text the Inference Service produces for task t: on a response that
\* also requests tool calls, and on the final response.
PartialText(t) == <<"partial", t>>
FinalText(t) == <<"final", t>>

\* Task.title, fixed per task id.
Title(t) == <<"title", t>>

\* Reasons the pre-flight scan may give with safe = false.
Reasons == {"harmful"}

VARIABLES
    tasks,      \* OmegaKernel._tasks: the in-memory task list
    running,    \* OmegaKernel._runningProcesses
    agents,     \* OmegaKernel._agents, keyed by AgentType
    logs,       \* OmegaKernel._logs (as the set of its entries)
    booted,     \* boot() has passed its restore and started the tick interval
    proc,       \* the runProcess invocation of each task id: its position and locals
    dbTasks,    \* Durable Store, object store 'tasks' (keyed by id)
    dbLogs,     \* Durable Store, object store 'logs'
    memories,   \* Durable Store, object store 'memories'
    nextId,     \* ids issued so far
    boots,      \* reloads so far
    faults,     \* collaborator failures so far
    explicit,   \* drafts that named a role so far
    textless,   \* executions ended by a response without text so far
    started,    \* per id: runProcess invocations started by this kernel instance
    released,   \* per id: executions of _runningProcesses.delete by this instance
    searched,   \* ids for which MemoryService.search was called by runProcess
    executed,   \* ids for which Agent.execute was called
    rejected,   \* ids whose pre-flight scan returned safe = false or raised
    preboot,    \* ids dispatched by this instance before its boot() restored
    limits,     \* the bounds of the specification being checked
    stale,      \* a task, agent or log record was rewritten and events.emit() has
                \* not been called since
    config,             \* Agent.config.type of the Agent whose execute is observed
    history,            \* Agent.execute: history
    finalOutput,        \* Agent.execute: finalOutput
    turnCount,          \* Agent.execute: turnCount
    functionCalls,      \* Agent.execute: the calls of stepResult still to be handled
    toolResponseParts,  \* Agent.execute: toolResponseParts
    epc,                \* Agent.execute: position ("idle": no invocation is observed)
    invoked,            \* per tool name: invocations of ToolRegistry[name].execute
    warnings,           \* console.warn calls of validateAccess
    handlerErrors,      \* exceptions that left a tool handler
    stepCalls,          \* calls of runAgentExecutionStep
    request,            \* the service operation observed: its name and inputs
    modelCalls,         \* the calls that operation made to a model, in order
    response            \* what that operation returned or raised

\* Bookkeeping of the runs (not program state).
ghost == <<started, released, searched, executed, rejected>>
\* Counters of the bounds, faults apart.
meta == <<nextId, boots, explicit, textless, limits>>

kvars == <<tasks, running, agents, logs, booted, proc, dbTasks, dbLogs, memories,
           preboot, faults, ghost, meta, stale>>

\* The observed Agent.execute invocation.
avars == <<config, history, finalOutput, turnCount, functionCalls, toolResponseParts,
           epc, invoked, warnings, handlerErrors, stepCalls>>

\* The observed call of an Inference Service or MemoryService operation.
svars == <<request, modelCalls, response>>

vars == <<kvars, avars, svars>>

(* ------------------------------ helpers -------------------------------- *)
\* finalOutput = "" (the empty string is a result, `undefined` is none).
EmptyText == <<"", 0>>

\* The priority a draft gives: a draft that leaves the role out leaves the priority
\* out too ("": none given), a draft that names a role asks for HIGH.
DraftPriority(role) == IF role = "PLANNER" THEN "" ELSE "HIGH"

\* A default that is LOW.
PriorityOfLow(given) == IF given = "" THEN "LOW" ELSE given

\* dispatchTask line 110: task.priority || 'MEDIUM'
PriorityOf(given) == IF given = "" THEN "MEDIUM" ELSE given

\* The description of the draft of task t.
Description(t) == <<"description", t>>

\* An optional task id (parentId): no id, or the one given.
NoParent == <<>>
Parent(t) == <<t>>

\* dispatchTask, lines 104-114: the record built from a draft whose parentId is
\* `parentId`. Ids are issued in the order of the calls, so the id stands for the
\* timestamp too.
TaskWithParent(id, role, parentId) ==
    [id |-> id, title |-> Title(id), description |-> Description(id),
     assignedAgent |-> role, status |-> "QUEUED",
     priority |-> PriorityOf(DraftPriority(role)), progress |-> 0, result |-> Undefined,
     timestamp |-> id, parentId |-> parentId]

\* dispatchTask: the record built from a draft without a parentId.
Task(id, role) == TaskWithParent(id, role, NoParent)

\* _tasks.findIndex(t => t.id === taskId), 1-based; 0 for -1.
FindIndex(ts, id) ==
    IF \E i \in DOMAIN ts : ts[i].id = id
    THEN CHOOSE i \in DOMAIN ts : ts[i].id = id /\ \A j \in 1..(i - 1) : ts[j].id # id
    ELSE 0

\* An update that builds the record anew from the id and the role, without the
\* spread of the old record.
UpdateTaskStatusRebuilt(ts, id, status, progress, result) ==
    LET idx == FindIndex(ts, id) IN
    IF idx = 0 THEN ts
    ELSE [ts EXCEPT ![idx] = [Task(id, @.assignedAgent) EXCEPT
                                  !.status = status, !.progress = progress,
                                  !.result = result]]

\* updateTaskStatus, the synchronous part: this._tasks[idx] = {...this._tasks[idx],
\* status, progress, result}.
UpdateTaskStatus(ts, id, status, progress, result) ==
    LET idx == FindIndex(ts, id) IN
    IF idx = 0 THEN ts
    ELSE [ts EXCEPT ![idx] = [@ EXCEPT !.status = status, !.progress = progress,
                                       !.result = result]]

\* updateTaskStatus, the awaited part: db.updateTask(this._tasks[idx]) is a put of
\* the record just built (no write when the id is unknown).
PutTask(db, ts, id) ==
    LET idx == FindIndex(ts, id) IN
    IF idx = 0 THEN db ELSE (id :> ts[idx]) @@ db

\* An update that keeps the old currentTask when none is given.
UpdateAgentStatusKeepsTask(ag, type, status, currentTask) ==
    IF type \in DOMAIN ag
    THEN [ag EXCEPT ![type] = [@ EXCEPT !.status = status,
                                        !.currentTask = IF currentTask = Undefined THEN @
                                                        ELSE currentTask]]
    ELSE ag

\* updateAgentStatus: the record of that type, if there is one.
UpdateAgentStatus(ag, type, status, currentTask) ==
    IF type \in DOMAIN ag
    THEN [ag EXCEPT ![type] = [@ EXCEPT !.status = status, !.currentTask = currentTask]]
    ELSE ag

\* A SystemLog entry; `by` stands for the entry's uuid (the task whose runProcess
\* or dispatch made the call, 0 for the kernel itself).
LogEntry(agent, text, severity, by) ==
    [agent |-> agent, message |-> text, severity |-> severity, by |-> by]

\* boot: the two entries logged before the restore.
BootLogs ==
    {LogEntry("MONITORING", "VANTIX-OMEGA KERNEL BOOT SEQUENCE INITIATED...", "INFO", 0),
     LogEntry("MONITORING", "Initializing Neural Swarm Architecture...", "INFO", 0)}

\* The message of the Error thrown on an unsafe verdict.
SecurityViolation(reason) == "Security Violation: " \o reason

\* The i-th smallest element of a finite set of numbers.
Nth(S, i) == CHOOSE x \in S : Cardinality({y \in S : y < x}) = i - 1

\* db.getAll('tasks') returns the records in key order; the keys are uuids, so the
\* order is unrelated to insertion order. Two orders stand for it.
RestoredTasks(db, up) ==
    LET S == DOMAIN db
        n == Cardinality(S)
    IN [i \in 1..n |-> IF up THEN db[Nth(S, i)] ELSE db[Nth(S, n + 1 - i)]]

\* No runProcess invocation for the id.
NoProc == [pc |-> "none", out |-> EmptyText, err |-> ""]

\* Between the return of the pre-flight scan and the return of addMemory a
\* runProcess reads and writes nothing of the kernel: every interleaving of these
\* awaits with other executions, ticks and dispatches is equivalent to one in which
\* they run back to back, and only those are taken. Quiet: no execution is inside
\* that stretch.
Quiet == \A t \in TaskIds : proc[t].pc \notin {"search", "exec", "commit"}

\* A collaborator's call fails: counted against the bound.
Fault == faults < limits.faults /\ faults' = faults + 1
NoFault == faults' = faults

(* ------------------------------ security ------------------------------- *)
\* security.ts: AGENT_PERMISSIONS
AGENT_PERMISSIONS ==
    [a \in AgentType |->
        CASE a = "PLANNER" ->
                {"READ_MEMORY", "WRITE_MEMORY", "SYSTEM_CONTROL", "EXECUTE_CODE", "SEARCH_ACCESS"}
          [] a = "REASONING" ->
                {"READ_MEMORY", "WRITE_MEMORY", "EXECUTE_CODE", "SEARCH_ACCESS"}
          [] a = "CODING" -> {"READ_MEMORY", "EXECUTE_CODE", "WRITE_MEMORY"}
          [] a = "AUTOMATION" ->
                {"READ_MEMORY", "WRITE_MEMORY", "NETWORK_ACCESS", "EXECUTE_CODE", "SEARCH_ACCESS"}
          [] a = "SECURITY" ->
                {"READ_MEMORY", "WRITE_MEMORY", "SYSTEM_CONTROL", "NETWORK_ACCESS", "EXECUTE_CODE"}
          [] a = "VOICE" -> {"AUDIO_IO", "READ_MEMORY"}
          [] a = "VISION" -> {"READ_MEMORY"}
          [] a = "MEMORY" -> {"READ_MEMORY", "WRITE_MEMORY"}
          [] a = "MONITORING" -> {"READ_MEMORY", "SYSTEM_CONTROL"}]

\* tools.ts: ToolRegistry, each tool's requiredPermissions
ToolRegistry ==
    [search_memory |-> [requiredPermissions |-> {"READ_MEMORY"}],
     save_memory |-> [requiredPermissions |-> {"WRITE_MEMORY"}],
     delegate_task |-> [requiredPermissions |-> {"SYSTEM_CONTROL"}],
     system_status |-> [requiredPermissions |-> {"SYSTEM_CONTROL"}],
     fetch_url |-> [requiredPermissions |-> {"NETWORK_ACCESS"}],
     broadcast_alert |-> [requiredPermissions |-> {"SYSTEM_CONTROL"}],
     analyze_code |-> [requiredPermissions |-> {"EXECUTE_CODE"}],
     execute_javascript |-> [requiredPermissions |-> {"EXECUTE_CODE"}]]

\* A name the Inference Service may put in a function call although no tool has it.
UnknownTool == "format_disk"

\* ToolRegistry is an object literal: ToolRegistry[name] also finds the properties
\* it inherits from Object.prototype, which are truthy and have no
\* requiredPermissions.
InheritedNames == {"toString"}

\* SecurityKernel.getPermissions / AGENT_PERMISSIONS[agentType] || []
GetPermissions(agentType) ==
    IF agentType \in DOMAIN AGENT_PERMISSIONS THEN AGENT_PERMISSIONS[agentType] ELSE {}

\* validateAccess raises: `required` is undefined and required.every is read.
ValidateAccessRaises(toolName) == toolName \in InheritedNames

\* A check that only looks the tool up.
ValidateAccessRegistered(agentType, toolName) == toolName \in DOMAIN ToolRegistry

\* SecurityKernel.validateAccess, when it returns.
ValidateAccess(agentType, toolName) ==
    IF toolName \notin DOMAIN ToolRegistry THEN FALSE
    ELSE \A perm \in ToolRegistry[toolName].requiredPermissions :
            perm \in GetPermissions(agentType)

\* validateAccess: the console.warn branch is taken.
Warns(agentType, toolName) ==
    toolName \in DOMAIN ToolRegistry /\ ~ValidateAccess(agentType, toolName)

\* The names a function call may carry.
CallNames == DOMAIN ToolRegistry \cup {UnknownTool} \cup InheritedNames

\* No Agent.execute invocation is observed turn by turn (Spec, SpecLoad: ExecTurn,
\* ExecReturned and ExecRaised stand for it).
NoExecution ==
    /\ config = "NONE"
    /\ history = <<>>
    /\ finalOutput = ""
    /\ turnCount = 0
    /\ functionCalls = <<>>
    /\ toolResponseParts = <<>>
    /\ epc = "idle"
    /\ invoked = [n \in CallNames |-> 0]
    /\ warnings = 0
    /\ handlerErrors = 0
    /\ stepCalls = 0

\* No service operation is observed call by call.
NoRequest ==
    /\ request = [op |-> "none"]
    /\ modelCalls = <<>>
    /\ response = [kind |-> "none"]

(* ------------------------------- kernel -------------------------------- *)
\* constructor: the field initialisers, initializeRuntime, and boot() up to its
\* first await (the two boot log calls).
Fresh ==
    [tasks |-> <<>>,
     running |-> {},
     agents |-> [a \in AgentType |-> [status |-> "IDLE", currentTask |-> Undefined]],
     logs |-> BootLogs,
     proc |-> [t \in TaskIds |-> NoProc],
     count |-> [t \in TaskIds |-> 0]]

\* The first construction, the log apart: no task, no process, every role IDLE.
Idle(lim) ==
    /\ running = Fresh.running
    /\ agents = Fresh.agents
    /\ proc = Fresh.proc
    /\ started = Fresh.count
    /\ released = Fresh.count
    /\ preboot = {}
    /\ searched = {}
    /\ executed = {}
    /\ rejected = {}
    /\ boots = 0
    /\ faults = 0
    /\ explicit = 0
    /\ textless = 0
    /\ limits = lim
    /\ stale = FALSE

\* A kernel instance with no task, over a Durable Store without tasks.
Runtime(lim) ==
    /\ Idle(lim)
    /\ tasks = Fresh.tasks
    /\ dbTasks = <<>>
    /\ nextId = 0

\* The first construction, over a Durable Store without tasks and logs.
Constructed(lim) ==
    /\ Runtime(lim)
    /\ booted = FALSE
    /\ logs = Fresh.logs
    /\ dbLogs = BootLogs

\* The first construction, over an empty Durable Store.
InitWith(lim) ==
    /\ Constructed(lim)
    /\ memories = {}

Init ==
    /\ InitWith([tasks |-> MaxTasks, boots |-> MaxBoots, reloadBy |-> MaxTasks,
                 faults |-> MaxFaults, explicit |-> MaxExplicitRole,
                 textless |-> MaxTextless])
    /\ NoExecution
    /\ NoRequest

\* The page is reloaded: the running kernel and its executions are gone, a new
\* OmegaKernel is constructed over the same Durable Store.
Reload ==
    /\ Quiet
    /\ boots < limits.boots
    /\ nextId <= limits.reloadBy
    /\ boots' = boots + 1
    /\ tasks' = Fresh.tasks
    /\ running' = Fresh.running
    /\ agents' = Fresh.agents
    /\ logs' = Fresh.logs
    /\ proc' = Fresh.proc
    /\ started' = Fresh.count
    /\ released' = Fresh.count
    /\ booted' = FALSE
    /\ preboot' = {}
    /\ searched' = {}
    /\ executed' = {}
    /\ rejected' = {}
    /\ dbLogs' = dbLogs \cup BootLogs
    /\ UNCHANGED <<dbTasks, memories, nextId, faults, explicit, textless, limits>>
    /\ stale' = FALSE
    /\ UNCHANGED <<avars, svars>>

\* boot(), from `await db.getTasks()` on. outcome: "ok", "tasks" (getTasks rejects),
\* "logs" (getLogs rejects after the tasks were restored). The read was issued by
\* the constructor, ahead of the put of any task this instance dispatched since:
\* it returns the store without them.
BootRestored(outcome, up) ==
    /\ Quiet
    /\ ~booted
    /\ booted' = TRUE
    /\ preboot' = {}
    /\ IF outcome = "ok" THEN NoFault ELSE Fault
    /\ tasks' = IF outcome = "tasks" THEN tasks
                ELSE RestoredTasks([t \in DOMAIN dbTasks \ preboot |-> dbTasks[t]], up)
    /\ LET base == IF outcome = "ok" THEN dbLogs ELSE logs
           e == IF outcome = "ok"
                THEN LogEntry("MONITORING", "Filesystem Mounted. State Restored.", "INFO", 0)
                ELSE LogEntry("MONITORING", "Cold Boot. No previous state found.", "WARNING", 0)
       IN /\ logs' = base \cup {e}
          /\ dbLogs' = dbLogs \cup {e}
    /\ UNCHANGED <<running, agents, proc, dbTasks, memories, ghost, meta>>
    /\ stale' = FALSE
    /\ UNCHANGED <<avars, svars>>

\* dispatchTask(draft): push, then `await db.addTask`, then the log call. When the
\* put rejects the exception leaves dispatchTask before the log call.
DispatchTask(role, dbOk) ==
    /\ Quiet
    /\ nextId < limits.tasks
    /\ IF role = "PLANNER" THEN explicit' = explicit
       ELSE explicit < limits.explicit /\ explicit' = explicit + 1
    /\ IF dbOk THEN NoFault ELSE Fault
    /\ preboot' = IF booted THEN preboot ELSE preboot \cup {nextId + 1}
    /\ LET newTask == Task(nextId + 1, role)
           e == LogEntry("PLANNER", "Task Dispatched", "INFO", newTask.id)
       IN /\ nextId' = nextId + 1
          /\ tasks' = Append(tasks, newTask)
          /\ dbTasks' = IF dbOk THEN (newTask.id :> newTask) @@ dbTasks ELSE dbTasks
          /\ logs' = IF dbOk THEN logs \cup {e} ELSE logs
          /\ dbLogs' = IF dbOk THEN dbLogs \cup {e} ELSE dbLogs
    /\ UNCHANGED <<running, agents, booted, proc, memories, ghost, boots, textless,
                   limits>>
    /\ stale' = ~dbOk
    /\ UNCHANGED <<avars, svars>>

\* A tick that compares with <= (one slot too many).
HasFreeSlotOffByOne == Cardinality(running) <= MAX_CONCURRENT_PROCESSES

\* tick: this._runningProcesses.size < this.MAX_CONCURRENT_PROCESSES
HasFreeSlot == Cardinality(running) < MAX_CONCURRENT_PROCESSES

\* A find predicate that leaves the status test out.
EligibleWithoutStatus(t) == t.id \notin running

\* tick: the predicate of this._tasks.find
Eligible(t) == t.status \in {"QUEUED", "PENDING"} /\ t.id \notin running

\* tick: the index find returns (0: undefined)
PendingIndex ==
    IF \E i \in DOMAIN tasks : Eligible(tasks[i])
    THEN CHOOSE i \in DOMAIN tasks :
            Eligible(tasks[i]) /\ \A j \in 1..(i - 1) : ~Eligible(tasks[j])
    ELSE 0

\* runProcess(task) up to its first await: the id enters the running set and
\* updateTaskStatus(IN_PROGRESS, 0) rewrites the in-memory record; the put is pending.
StartProcess(task) ==
    /\ running' = running \cup {task.id}
    /\ tasks' = UpdateTaskStatus(tasks, task.id, "IN_PROGRESS", 0, Undefined)
    /\ proc' = [proc EXCEPT ![task.id] = [pc |-> "mark", out |-> EmptyText, err |-> ""]]
    /\ started' = [started EXCEPT ![task.id] = @ + 1]

\* A tick that admits every eligible task at once.
TickAdmitsAll ==
    /\ Quiet
    /\ booted
    /\ LET ids == {tasks[i].id : i \in {j \in DOMAIN tasks : Eligible(tasks[j])}}
       IN IF HasFreeSlot /\ ids # {}
          THEN /\ running' = running \cup ids
               /\ tasks' = [i \in DOMAIN tasks |->
                               IF tasks[i].id \in ids
                               THEN UpdateTaskStatus(tasks, tasks[i].id, "IN_PROGRESS", 0,
                                                     Undefined)[i]
                               ELSE tasks[i]]
               /\ proc' = [t \in TaskIds |->
                              IF t \in ids THEN [pc |-> "mark", out |-> EmptyText, err |-> ""]
                              ELSE proc[t]]
               /\ started' = [t \in TaskIds |-> IF t \in ids THEN started[t] + 1
                                                ELSE started[t]]
          ELSE UNCHANGED <<running, tasks, proc, started>>
    /\ UNCHANGED <<agents, logs, booted, dbTasks, dbLogs, memories, preboot, faults,
                   released, searched, executed, rejected, meta>>
    /\ stale' = (HasFreeSlot /\ PendingIndex # 0)
    /\ UNCHANGED <<avars, svars>>

\* tick(), fired by the interval boot() starts. The uptime/activeProcesses counters
\* of _state are display values and are left out.
Tick ==
    /\ Quiet
    /\ booted
    /\ IF HasFreeSlot /\ PendingIndex # 0
       THEN StartProcess(tasks[PendingIndex])
       ELSE UNCHANGED <<running, tasks, proc, started>>
    /\ UNCHANGED <<agents, logs, booted, dbTasks, dbLogs, memories, preboot, faults,
                   released, searched, executed, rejected, meta>>
    /\ stale' = (HasFreeSlot /\ PendingIndex # 0)
    /\ UNCHANGED <<avars, svars>>

\* The Task object runProcess was called with (its id, title and assignedAgent are
\* never rewritten).
TaskOf(id) == tasks[FindIndex(tasks, id)]

At(id, pc) == proc[id].pc = pc

Goto(id, pc) == proc' = [proc EXCEPT ![id].pc = pc]

\* A catch block that writes the text produced so far as the result.
CatchKeepsOutput(id, message) ==
    /\ tasks' = UpdateTaskStatus(tasks, id, "FAILED", 0, proc[id].out)
    /\ proc' = [proc EXCEPT ![id] = [pc |-> "failwrite", out |-> proc[id].out, err |-> message]]

\* runProcess, the catch block up to its await: updateTaskStatus(FAILED, 0, undefined)
\* rewrites the in-memory record; error.message is kept for the log call (and `out`
\* keeps the text the execution had produced when it was abandoned).
Catch(id, message) ==
    /\ tasks' = UpdateTaskStatus(tasks, id, "FAILED", 0, Undefined)
    /\ proc' = [proc EXCEPT ![id] = [pc |-> "failwrite", out |-> proc[id].out, err |-> message]]

\* A finally block that leaves the role's record alone while another task of the
\* role is running.
FinallyUnlessBusy(id) ==
    /\ agents' = IF \E other \in running \ {id} :
                        TaskOf(other).assignedAgent = TaskOf(id).assignedAgent
                  THEN agents
                  ELSE UpdateAgentStatus(agents, TaskOf(id).assignedAgent, "IDLE", Undefined)
    /\ running' = running \ {id}
    /\ released' = [released EXCEPT ![id] = @ + 1]
    /\ proc' = [proc EXCEPT ![id] = [pc |-> "ended", out |-> EmptyText, err |-> ""]]

\* runProcess, the finally block.
Finally(id) ==
    /\ agents' = UpdateAgentStatus(agents, TaskOf(id).assignedAgent, "IDLE", Undefined)
    /\ running' = running \ {id}
    /\ released' = [released EXCEPT ![id] = @ + 1]
    /\ proc' = [proc EXCEPT ![id] = [pc |-> "ended", out |-> EmptyText, err |-> ""]]

\* runProcess line 163-168: the put of the IN_PROGRESS record returns. Resolved: the
\* role is marked EXECUTING and securityScan is called. Rejected: the await is
\* outside the try block, so the exception leaves runProcess at once.
MarkWritten(id, dbOk) ==
    /\ Quiet
    /\ At(id, "mark")
    /\ IF dbOk
       THEN /\ NoFault
            /\ dbTasks' = PutTask(dbTasks, tasks, id)
            /\ agents' = UpdateAgentStatus(agents, TaskOf(id).assignedAgent, "EXECUTING",
                                           TaskOf(id).title)
            /\ Goto(id, "scan")
       ELSE /\ Fault
            /\ Goto(id, "ended")
            /\ UNCHANGED <<dbTasks, agents>>
    /\ UNCHANGED <<tasks, running, logs, booted, dbLogs, memories, preboot, ghost, meta>>
    /\ stale' = IF dbOk THEN FALSE ELSE stale
    /\ UNCHANGED <<avars, svars>>

\* runProcess line 168-175: securityScan returns {safe, reason} or raises; on a safe
\* verdict MemoryService.search is called. verdict: "safe", "raise", or a reason
\* given with safe = false.
ScanReturned(id, verdict) ==
    /\ Quiet
    /\ At(id, "scan")
    /\ IF verdict = "safe"
       THEN /\ NoFault
            /\ searched' = searched \cup {id}
            /\ Goto(id, "search")
            /\ UNCHANGED <<tasks, rejected>>
       ELSE /\ Fault
            /\ rejected' = rejected \cup {id}
            /\ Catch(id, IF verdict = "raise" THEN "Security scan failed"
                         ELSE SecurityViolation(verdict))
            /\ UNCHANGED searched
    /\ UNCHANGED <<running, agents, logs, booted, dbTasks, dbLogs, memories, preboot,
                   started, released, executed, meta>>
    /\ stale' = IF verdict = "safe" THEN stale ELSE TRUE
    /\ UNCHANGED <<avars, svars>>

\* runProcess line 175-191: MemoryService.search returns or raises; then the Agent
\* instance is looked up and agent.execute is called.
SearchReturned(id, ok) ==
    /\ At(id, "search")
    /\ IF ~ok
       THEN Fault /\ Catch(id, "Memory search failed") /\ UNCHANGED executed
       ELSE /\ NoFault
            /\ IF TaskOf(id).assignedAgent \in AgentType
               THEN executed' = executed \cup {id} /\ Goto(id, "exec") /\ UNCHANGED tasks
               ELSE Catch(id, "Agent Runtime not found") /\ UNCHANGED executed
    /\ UNCHANGED <<running, agents, logs, booted, dbTasks, dbLogs, memories, preboot,
                   started, released, searched, rejected, meta>>
    /\ stale' = IF ok /\ TaskOf(id).assignedAgent \in AgentType THEN stale ELSE TRUE
    /\ UNCHANGED <<avars, svars>>

\* Agent.execute, a turn whose response carries text and requests tool calls: the
\* text replaces finalOutput and the loop goes on (the turn in detail: SpecAgent).
ExecTurn(id) ==
    /\ At(id, "exec")
    /\ proc' = [proc EXCEPT ![id].out = PartialText(id)]
    /\ UNCHANGED <<tasks, running, agents, logs, booted, dbTasks, dbLogs, memories,
                   preboot, faults, ghost, meta>>
    /\ UNCHANGED stale
    /\ UNCHANGED <<avars, svars>>

\* Agent.execute returns finalOutput after a response without tool calls;
\* runProcess line 191-194 then calls MemoryService.addMemory.
ExecReturned(id, withText) ==
    /\ At(id, "exec")
    /\ IF withText THEN textless' = textless
       ELSE textless < limits.textless /\ textless' = textless + 1
    /\ proc' = [proc EXCEPT ![id].out = IF withText THEN FinalText(id) ELSE @,
                            ![id].pc = "commit"]
    /\ UNCHANGED <<tasks, running, agents, logs, booted, dbTasks, dbLogs, memories,
                   preboot, faults, ghost, nextId, boots, explicit, limits>>
    /\ UNCHANGED stale
    /\ UNCHANGED <<avars, svars>>

\* The inference step raises (after the model fallback): nothing inside
\* Agent.execute catches it.
ExecRaised(id) ==
    /\ At(id, "exec")
    /\ Fault
    /\ Catch(id, "Inference failed")
    /\ UNCHANGED <<running, agents, logs, booted, dbTasks, dbLogs, memories, preboot,
                   ghost, meta>>
    /\ stale' = TRUE
    /\ UNCHANGED <<avars, svars>>

\* The EPISODIC entry runProcess line 194-199 stores (its tags hold the task id).
EpisodicEntry(task, result) ==
    [type |-> "EPISODIC", agentOrigin |-> task.assignedAgent, tag |-> task.id,
     content |-> result]

\* A success write that leaves the result out.
SuccessWithoutResult(ts, id, result) == UpdateTaskStatus(ts, id, "COMPLETED", 100, Undefined)

\* runProcess line 202: the record of a successful execution.
Success(ts, id, result) == UpdateTaskStatus(ts, id, "COMPLETED", 100, result)

\* runProcess line 194-202: addMemory returns (the entry is in the store) and
\* updateTaskStatus(COMPLETED, 100, result) rewrites the in-memory record; or
\* db.addMemory rejects.
CommitReturned(id, dbOk) ==
    /\ At(id, "commit")
    /\ IF dbOk
       THEN /\ NoFault
            /\ memories' = memories \cup {EpisodicEntry(TaskOf(id), proc[id].out)}
            /\ tasks' = Success(tasks, id, proc[id].out)
            /\ Goto(id, "okwrite")
       ELSE /\ Fault
            /\ Catch(id, "Memory write failed")
            /\ UNCHANGED memories
    /\ UNCHANGED <<running, agents, logs, booted, dbTasks, dbLogs, preboot, ghost, meta>>
    /\ stale' = TRUE
    /\ UNCHANGED <<avars, svars>>

\* runProcess line 202-214: the put of the COMPLETED record returns. Resolved: the
\* completion is logged and the finally block runs. Rejected: the catch block runs.
CompletedWritten(id, dbOk) ==
    /\ Quiet
    /\ At(id, "okwrite")
    /\ IF dbOk
       THEN /\ NoFault
            /\ dbTasks' = PutTask(dbTasks, tasks, id)
            /\ LET e == LogEntry(TaskOf(id).assignedAgent, "Task Completed", "INFO", id)
               IN logs' = logs \cup {e} /\ dbLogs' = dbLogs \cup {e}
            /\ Finally(id)
            /\ UNCHANGED tasks
       ELSE /\ Fault
            /\ Catch(id, "Task write failed")
            /\ UNCHANGED <<dbTasks, logs, dbLogs, agents, running, released>>
    /\ UNCHANGED <<booted, memories, preboot, started, searched, executed, rejected,
                   meta>>
    /\ stale' = ~dbOk
    /\ UNCHANGED <<avars, svars>>

\* The log entry of runProcess line 209.
ExceptionLog(task, message) ==
    LogEntry(task.assignedAgent, "Execution Exception: " \o message, "ERROR", task.id)

\* runProcess line 208-214: the put of the FAILED record returns. Resolved: the
\* exception is logged. Rejected: the exception leaves the catch block before the
\* log call. The finally block runs in both cases.
FailedWritten(id, dbOk) ==
    /\ Quiet
    /\ At(id, "failwrite")
    /\ IF dbOk
       THEN /\ NoFault
            /\ dbTasks' = PutTask(dbTasks, tasks, id)
            /\ LET e == ExceptionLog(TaskOf(id), proc[id].err)
               IN logs' = logs \cup {e} /\ dbLogs' = dbLogs \cup {e}
       ELSE /\ Fault
            /\ UNCHANGED <<dbTasks, logs, dbLogs>>
    /\ Finally(id)
    /\ UNCHANGED <<tasks, booted, memories, preboot, started, searched, executed,
                   rejected, meta>>
    /\ stale' = FALSE
    /\ UNCHANGED <<avars, svars>>

\* What the pre-flight scan may answer.
Verdicts == {"safe", "raise"} \cup Reasons

Next ==
    \/ Reload
    \/ \E outcome \in {"ok", "tasks", "logs"}, up \in BOOLEAN : BootRestored(outcome, up)
    \/ \E role \in {"PLANNER"} \cup DraftRoles, dbOk \in BOOLEAN : DispatchTask(role, dbOk)
    \/ Tick
    \/ \E id \in TaskIds, dbOk \in BOOLEAN : MarkWritten(id, dbOk)
    \/ \E id \in TaskIds, verdict \in Verdicts : ScanReturned(id, verdict)
    \/ \E id \in TaskIds, ok \in BOOLEAN : SearchReturned(id, ok)
    \/ \E id \in TaskIds : ExecTurn(id)
    \/ \E id \in TaskIds, withText \in BOOLEAN : ExecReturned(id, withText)
    \/ \E id \in TaskIds : ExecRaised(id)
    \/ \E id \in TaskIds, dbOk \in BOOLEAN : CommitReturned(id, dbOk)
    \/ \E id \in TaskIds, dbOk \in BOOLEAN : CompletedWritten(id, dbOk)
    \/ \E id \in TaskIds, dbOk \in BOOLEAN : FailedWritten(id, dbOk)

Spec == Init /\ [][Next]_vars

\* More tasks than process slots; no collaborator fails, every draft leaves the
\* role out and every execution ends on a response with text.
InitLoad ==
    /\ InitWith([tasks |-> LoadTasks, boots |-> LoadBoots, reloadBy |-> LoadReloadBy,
                 faults |-> 0, explicit |-> 0, textless |-> 0])
    /\ NoExecution
    /\ NoRequest

\* Next without the step that is a collaborator's failure and nothing else.
NextLoad ==
    \/ Reload
    \/ \E up \in BOOLEAN : BootRestored("ok", up)
    \/ DispatchTask("PLANNER", TRUE)
    \/ Tick
    \/ \E id \in TaskIds : MarkWritten(id, TRUE)
    \/ \E id \in TaskIds : ScanReturned(id, "safe")
    \/ \E id \in TaskIds : SearchReturned(id, TRUE)
    \/ \E id \in TaskIds : ExecTurn(id)
    \/ \E id \in TaskIds : ExecReturned(id, TRUE)
    \/ \E id \in TaskIds : CommitReturned(id, TRUE)
    \/ \E id \in TaskIds : CompletedWritten(id, TRUE)

SpecLoad == InitLoad /\ [][NextLoad]_vars

(* ---------------------------- Agent.execute ---------------------------- *)
MAX_TURNS == 10

\* Under SpecAgent: the turns (the first ones) whose response may request any of
\* CallLists and whose handlers may raise; a later response requests the routine
\* call, whose handler returns, or none.
MaxFreeTurns == 2
\* Under SpecAgent: the tasks delegate_task may dispatch.
AgentTasks == 1

\* The text of the response of turn n, when it has one.
TurnText(n) == "text" \o ToString(n)

\* The citations appended for groundingChunks with a web source.
Sources == "\n\nSOURCES:\n[1] title (uri)"

TurnsNote == "\n[SYSTEM NOTE: Maximum execution turns reached.]"

SecurityBlock(toolName) == "SECURITY BLOCK: Access denied to " \o toolName

\* A catch block that passes the message on as it is.
ErrorResultBare(message) == message

\* Agent.execute line 103-105: resultStr = `Error: ${e.message}`
ErrorResult(message) == "Error: " \o message

\* e.message of the exception of a handler.
HandlerMessage == "tool failed"

\* `Error: ${e.message}` for the exception of a handler.
HandlerError == ErrorResult(HandlerMessage)

\* A loop condition that admits one turn too many.
LoopContinuesOffByOne(n) == n <= MAX_TURNS

\* Agent.execute line 52: while (turnCount < MAX_TURNS)
LoopContinues(n) == n < MAX_TURNS

\* A test after the loop that compares with > (the note is never due).
ReturnedStrict(out, n) == IF n > MAX_TURNS THEN out \o TurnsNote ELSE out

\* Agent.execute line 129-133: what execute returns with finalOutput = out and
\* turnCount = n.
Returned(out, n) == IF n >= MAX_TURNS THEN out \o TurnsNote ELSE out

\* What the handler of a tool returns.
ToolOutput(toolName) == "result of " \o toolName

\* A part of a history entry: {text}, {functionCall: {name}} or
\* {functionResponse: {name, response: {content: {result}}}}.
Part(kind, name, content) == [kind |-> kind, name |-> name, content |-> content]

\* A history entry.
Content(role, parts) == [role |-> role, parts |-> parts]

\* The first history entry (the system prompt built from config and task).
SystemPrompt == Content("user", <<Part("text", "", "system prompt")>>)

\* canSearch
CanSearch(agentType) == "SEARCH_ACCESS" \in GetPermissions(agentType)

\* Handlers with a path on which an exception leaves them (a rejected Durable Store
\* call, a missing argument); fetch_url and execute_javascript catch their own.
Throwing == {"search_memory", "save_memory", "system_status", "analyze_code"}

\* The function calls a response may carry, when it carries any.
CallLists ==
    {<<n>> : n \in CallNames}
        \cup {<<"fetch_url", "search_memory">>, <<"delegate_task", "save_memory">>}

\* The role delegate_task is asked to dispatch to.
DelegateRole == "CODING"

\* What runAgentExecutionStep may return at this turn: {text, functionCalls,
\* metadata.groundingChunks}.
StepResults ==
    LET texts == {"", TurnText(turnCount)}
        final == {r \in [text : texts, sources : BOOLEAN, calls : {<<>>}] :
                    r.sources => (r.text # "" /\ CanSearch(config))}
        free == IF turnCount < MaxFreeTurns
                THEN [text : texts, sources : {FALSE}, calls : CallLists]
                ELSE {}
        routine == [text : {TurnText(turnCount)}, sources : {FALSE},
                    calls : {<<"search_memory">>}]
    IN final \cup free \cup routine

\* Occurrences of a name in a list of calls.
Count(calls, n) == Cardinality({i \in DOMAIN calls : calls[i] = n})

\* Agent.execute(task, context) is called on the Agent of the given type: the
\* locals before the loop.
ExecuteCalled(agentType) ==
    /\ config = agentType
    /\ history = <<SystemPrompt>>
    /\ finalOutput = ""
    /\ turnCount = 0
    /\ functionCalls = <<>>
    /\ toolResponseParts = <<>>
    /\ epc = "step"
    /\ invoked = [n \in CallNames |-> 0]
    /\ warnings = 0
    /\ handlerErrors = 0
    /\ stepCalls = 0

\* What an Agent.execute invocation never touches of the kernel.
kfixed == <<running, agents, booted, proc, faults, ghost, boots, explicit, textless,
            limits, stale, svars>>
\* What its tool handlers may touch.
ktouched == <<tasks, logs, dbTasks, dbLogs, memories, preboot, nextId>>

\* Agent.execute line 54-93 and 124-131: runAgentExecutionStep returns r. The text
\* replaces finalOutput; with function calls the model entry is pushed and the
\* for loop starts, without any the loop is left and finalOutput returned.
StepReturned(r) ==
    /\ epc = "step"
    /\ Count(r.calls, "delegate_task") <= limits.tasks - nextId
    /\ stepCalls' = stepCalls + 1
    /\ LET out == IF r.text # ""
                  THEN r.text \o (IF r.sources THEN Sources ELSE "")
                  ELSE finalOutput
       IN finalOutput' = IF r.calls # <<>> THEN out ELSE Returned(out, turnCount)
    /\ IF r.calls # <<>>
       THEN LET modelParts ==
                    (IF r.text # "" THEN <<Part("text", "", r.text)>> ELSE <<>>)
                        \o [i \in DOMAIN r.calls |-> Part("functionCall", r.calls[i], "")]
            IN /\ history' = Append(history, Content("model", modelParts))
               /\ functionCalls' = r.calls
               /\ toolResponseParts' = <<>>
               /\ epc' = "tools"
       ELSE /\ epc' = "returned"
            /\ UNCHANGED <<history, functionCalls, toolResponseParts>>
    /\ UNCHANGED <<config, turnCount, invoked, warnings, handlerErrors, kfixed, ktouched>>

\* runAgentExecutionStep raises (both models failed): nothing in execute catches it.
StepRaised ==
    /\ epc = "step"
    /\ epc' = "raised"
    /\ stepCalls' = stepCalls + 1
    /\ UNCHANGED <<config, history, finalOutput, turnCount, functionCalls,
                   toolResponseParts, invoked, warnings, handlerErrors, kfixed, ktouched>>

\* ToolRegistry[toolName].execute(args, contextAgent): what a handler that returns
\* has done to the kernel and the Durable Store.
Execute(toolName, contextAgent) ==
    CASE toolName = "save_memory" ->
            /\ memories' = memories \cup
                    {[type |-> "SEMANTIC", agentOrigin |-> contextAgent, tag |-> 0,
                      content |-> <<"saved", 0>>]}
            /\ UNCHANGED <<tasks, logs, dbTasks, dbLogs, preboot, nextId>>
      [] toolName = "delegate_task" ->
            LET newTask == Task(nextId + 1, DelegateRole)
                e == LogEntry("PLANNER", "Task Dispatched", "INFO", newTask.id)
            IN /\ nextId' = nextId + 1
               /\ tasks' = Append(tasks, newTask)
               /\ dbTasks' = (newTask.id :> newTask) @@ dbTasks
               /\ logs' = logs \cup {e}
               /\ dbLogs' = dbLogs \cup {e}
               /\ preboot' = IF booted THEN preboot ELSE preboot \cup {newTask.id}
               /\ UNCHANGED memories
      [] toolName = "broadcast_alert" ->
            LET e == LogEntry(contextAgent, "BROADCAST: alert", "CRITICAL", 0)
            IN /\ logs' = logs \cup {e}
               /\ dbLogs' = dbLogs \cup {e}
               /\ UNCHANGED <<tasks, dbTasks, memories, preboot, nextId>>
      [] OTHER -> UNCHANGED ktouched

\* A loop that answers only the calls that were let through.
PushedUnlessBlocked(parts, toolName, resultStr) ==
    IF resultStr = SecurityBlock(toolName) THEN parts
    ELSE Append(parts, Part("functionResponse", toolName, resultStr))

\* Agent.execute line 110-118: toolResponseParts.push({functionResponse: ...})
Pushed(parts, toolName, resultStr) ==
    Append(parts, Part("functionResponse", toolName, resultStr))

\* Agent.execute line 94-122: one pass of the for loop, for the first call still to
\* be handled. returns: the handler, if it is reached, returns (or raises). After
\* the last call the user entry is pushed, turnCount incremented and the loop
\* condition read; leaving the loop at MAX_TURNS appends the note.
ToolCall(returns) ==
    /\ epc = "tools"
    /\ functionCalls # <<>>
    /\ LET toolName == Head(functionCalls) IN
       IF ValidateAccessRaises(toolName)
       THEN /\ returns
            /\ epc' = "raised"
            /\ UNCHANGED <<history, finalOutput, turnCount, functionCalls,
                           toolResponseParts, invoked, warnings, handlerErrors, ktouched>>
       ELSE LET allowed == ValidateAccess(config, toolName)
                resultStr == IF ~allowed THEN SecurityBlock(toolName)
                             ELSE IF returns THEN ToolOutput(toolName)
                             ELSE HandlerError
                parts == Pushed(toolResponseParts, toolName, resultStr)
                rest == Tail(functionCalls)
            IN /\ returns \/ (allowed /\ toolName \in Throwing /\ turnCount < MaxFreeTurns)
               /\ invoked' = IF allowed THEN [invoked EXCEPT ![toolName] = @ + 1]
                             ELSE invoked
               /\ warnings' = IF Warns(config, toolName) THEN warnings + 1 ELSE warnings
               /\ handlerErrors' = IF allowed /\ ~returns THEN handlerErrors + 1
                                   ELSE handlerErrors
               /\ IF allowed /\ returns THEN Execute(toolName, config)
                  ELSE UNCHANGED ktouched
               /\ toolResponseParts' = parts
               /\ functionCalls' = rest
               /\ IF rest # <<>>
                  THEN epc' = "tools" /\ UNCHANGED <<history, turnCount, finalOutput>>
                  ELSE /\ history' = Append(history, Content("user", parts))
                       /\ turnCount' = turnCount + 1
                       /\ IF LoopContinues(turnCount + 1)
                          THEN epc' = "step" /\ UNCHANGED finalOutput
                          ELSE /\ epc' = "returned"
                               /\ finalOutput' = Returned(finalOutput, turnCount + 1)
    /\ UNCHANGED <<config, stepCalls, kfixed>>

NextAgent ==
    \/ \E r \in StepResults : StepReturned(r)
    \/ StepRaised
    \/ \E returns \in BOOLEAN : ToolCall(returns)

\* One Agent.execute invocation, on a kernel that has just been constructed.
InitAgent ==
    /\ InitWith([tasks |-> AgentTasks, boots |-> 0, reloadBy |-> 0, faults |-> 0,
                 explicit |-> 0, textless |-> 0])
    /\ \E agentType \in AgentType : ExecuteCalled(agentType)
    /\ NoRequest

SpecAgent == InitAgent /\ [][NextAgent]_vars

(* -------------------------- Inference Service -------------------------- *)
\* Vectors have this many components in the model (768 in text-embedding-004 and
\* in the null vector of getEmbeddings).
Dim == 2

\* s.includes(sub)
Includes(s, sub) ==
    \E i \in 1..(Len(s) - Len(sub) + 1) : SubSeq(s, i, i + Len(sub) - 1) = sub

\* The errors a model call may fail with: {status, message} (status 0: the error
\* has no status; message "": it has no message).
Errors ==
    {[status |-> 503, message |-> "Service Unavailable"],
     [status |-> 429, message |-> "Too Many Requests"],
     [status |-> 0, message |-> "The model is overloaded. Please try again later."],
     [status |-> 500, message |-> "Internal error"],
     [status |-> 0, message |-> "Overloaded"],
     [status |-> 0, message |-> "fetch failed"],
     [status |-> 0, message |-> ""]}

\* getClient: the error of a missing API_KEY.
MissingKey == [status |-> 0, message |-> "API_KEY is missing in environment variables."]

\* What a model call may do: return a value or fail with an error.
Returns(value) == [ok |-> TRUE, value |-> value]
Fails(error) == [ok |-> FALSE, error |-> error]
Outcomes(values) == {Returns(v) : v \in values} \cup {Fails(e) : e \in Errors}

\* A fallback test that only knows status 503.
IsOverloaded503(error) == error.status = 503

\* withModelFallback line 22: isOverloaded
IsOverloaded(error) ==
    error.status = 503 \/ error.status = 429 \/ Includes(error.message, "overloaded")

\* A fallback taken on every failure.
ShouldFallBackAlways(error, primaryModel, fallbackModel) == TRUE

\* withModelFallback line 23: if (isOverloaded && primaryModel !== fallbackModel)
ShouldFallBack(error, primaryModel, fallbackModel) ==
    IsOverloaded(error) /\ primaryModel # fallbackModel

\* A call of operation(model) as it is recorded.
ModelCall(model, outcome) == [model |-> model, outcome |-> outcome]

\* What an operation hands to its caller: a value or the exception it raises.
Value(v) == [kind |-> "value", value |-> v]
Raise(e) == [kind |-> "error", error |-> e]
Settle(outcome) == IF outcome.ok THEN Value(outcome.value) ELSE Raise(outcome.error)

\* An operation's run: the model calls it made and what it handed to its caller.
Run(calls, result) == [calls |-> calls, result |-> result]

\* withModelFallback(primaryModel, fallbackModel, operation): operation(model)
\* behaving as behaviour[model] says.
WithModelFallback(primaryModel, fallbackModel, behaviour) ==
    LET first == behaviour[primaryModel] IN
    IF first.ok
    THEN Run(<<ModelCall(primaryModel, first)>>, Value(first.value))
    ELSE IF ShouldFallBack(first.error, primaryModel, fallbackModel)
    THEN Run(<<ModelCall(primaryModel, first),
               ModelCall(fallbackModel, behaviour[fallbackModel])>>,
             Settle(behaviour[fallbackModel]))
    ELSE Run(<<ModelCall(primaryModel, first)>>, Raise(first.error))

\* runAgentExecutionStep: primaryModel and fallbackModel
PrimaryModel == "gemini-3-pro-preview"
FallbackModel == "gemini-3-flash-preview"
\* getEmbeddings: the model it names
EmbeddingModel == "text-embedding-004"
\* securityScan: the model it names
ScanModel == "gemini-3-flash-preview"

\* runAgentExecutionStep: getClient, then withModelFallback over generateContent.
RunAgentExecutionStep(apiKey, behaviour) ==
    IF ~apiKey THEN Run(<<>>, Raise(MissingKey))
    ELSE WithModelFallback(PrimaryModel, FallbackModel, behaviour)

\* getEmbeddings: new Array(768).fill(0)
NullVector == [i \in 1..Dim |-> 0]

\* getEmbeddings: getClient outside the try, then one embedContent call; its
\* failure is caught and answered with the null vector.
GetEmbeddings(apiKey, behaviour) ==
    IF ~apiKey THEN Run(<<>>, Raise(MissingKey))
    ELSE LET only == behaviour[EmbeddingModel] IN
         Run(<<ModelCall(EmbeddingModel, only)>>,
             IF only.ok THEN Value(only.value) ELSE Value(NullVector))

\* securityScan line 175: throw new Error("Security scan failed")
ScanFailed == [status |-> 0, message |-> "Security scan failed"]

\* securityScan: getClient, then one generateContent call whose failure
\* propagates; a response without text raises, a text is parsed.
SecurityScan(apiKey, behaviour) ==
    IF ~apiKey THEN Run(<<>>, Raise(MissingKey))
    ELSE LET only == behaviour[ScanModel] IN
         Run(<<ModelCall(ScanModel, only)>>,
             IF only.ok /\ only.value = "" THEN Raise(ScanFailed) ELSE Settle(only))

\* What generateContent may answer an agent step with (as the step returns it),
\* and a safety scan with (its parsed text; "": no text).
StepValues == {"pro text", "flash text"}
ScanValues == {"", "safe", "unsafe"}
\* What embedContent may answer with: response.embedding.values.
Vec(x, y) == [i \in 1..Dim |-> IF i = 1 THEN x ELSE IF i = 2 THEN y ELSE 0]
Vectors == {<<>>, Vec(1, 0), Vec(1, 1), Vec(1, 2)}

\* What the kernel and the observed Agent.execute hold while a service operation
\* is observed.
kidle == <<tasks, running, agents, logs, booted, proc, dbTasks, dbLogs, preboot, faults,
           ghost, meta, stale, avars>>

\* runAgentExecutionStep(agentType, contents, tools, enableSearch) is called and
\* settles.
Generate(apiKey, behaviour) ==
    LET run == RunAgentExecutionStep(apiKey, behaviour) IN
    /\ request' = [op |-> "runAgentExecutionStep", apiKey |-> apiKey,
                   behaviour |-> behaviour]
    /\ modelCalls' = run.calls
    /\ response' = run.result
    /\ UNCHANGED <<memories, kidle>>

\* getEmbeddings(text) is called and settles.
Embed(apiKey, behaviour) ==
    LET run == GetEmbeddings(apiKey, behaviour) IN
    /\ request' = [op |-> "getEmbeddings", apiKey |-> apiKey, behaviour |-> behaviour]
    /\ modelCalls' = run.calls
    /\ response' = run.result
    /\ UNCHANGED <<memories, kidle>>

\* securityScan(prompt) is called and settles.
Scan(apiKey, behaviour) ==
    LET run == SecurityScan(apiKey, behaviour) IN
    /\ request' = [op |-> "securityScan", apiKey |-> apiKey, behaviour |-> behaviour]
    /\ modelCalls' = run.calls
    /\ response' = run.result
    /\ UNCHANGED <<memories, kidle>>

(* ---------------------------- MemoryService ---------------------------- *)
\* Entries the 'memories' store holds at most.
MaxEntries == 2

UpperCase == "ABCDEFGHIJKLMNOPQRSTUVWXYZ"
LowerCase == "abcdefghijklmnopqrstuvwxyz"

\* String.prototype.toLowerCase, on one character and on a string.
LowerOf ==
    [c \in {SubSeq(UpperCase, i, i) : i \in 1..Len(UpperCase)} |->
        LET i == CHOOSE i \in 1..Len(UpperCase) : SubSeq(UpperCase, i, i) = c
        IN SubSeq(LowerCase, i, i)]

LowerChar(c) == IF c \in DOMAIN LowerOf THEN LowerOf[c] ELSE c

RECURSIVE ToLowerCase(_)
ToLowerCase(s) ==
    IF Len(s) = 0 THEN ""
    ELSE LowerChar(SubSeq(s, 1, 1)) \o ToLowerCase(SubSeq(s, 2, Len(s)))

\* Array.prototype.sort with a comparator that puts the greater first: stable, so
\* elements that compare equal keep their order. geq[i, j]: s[i] is not less
\* than s[j].
SortDescending(s, geq) ==
    LET n == Len(s)
        Before(j, i) == geq[j, i] /\ (~geq[i, j] \/ j < i)
        Rank(i) == Cardinality({j \in 1..n : j # i /\ Before(j, i)})
    IN [r \in 1..n |-> s[CHOOSE i \in 1..n : Rank(i) = r - 1]]

\* dotProduct
RECURSIVE DotProduct(_, _)
DotProduct(a, b) ==
    IF Len(a) = 0 THEN 0
    ELSE a[1] * b[1] + DotProduct(Tail(a), Tail(b))

\* A magnitude that takes the first component only.
MagnitudeSquaredOfFirst(v) == IF Len(v) = 0 THEN 0 ELSE v[1] * v[1]

\* magnitude, squared (magnitude is its square root)
MagnitudeSquared(v) == DotProduct(v, v)

\* A similarity score num / sqrt(den2), den2 > 0, kept exact.
Score(num, den2) == [num |-> num, den2 |-> den2]
Zero == Score(0, 1)

\* x >= y on scores.
ScoreGeq(x, y) ==
    IF x.num >= 0
    THEN y.num < 0 \/ x.num * x.num * y.den2 >= y.num * y.num * x.den2
    ELSE y.num < 0 /\ x.num * x.num * y.den2 <= y.num * y.num * x.den2

\* What a division by zero yields instead of a score.
NaN == [num |-> 0, den2 |-> 0]
Infinity == [num |-> 1, den2 |-> 0]

\* num / sqrt(den2) as JavaScript divides: 0 / 0 is NaN, x / 0 is infinite.
Quotient(num, den2) ==
    IF den2 # 0 THEN Score(num, den2)
    ELSE IF num = 0 THEN NaN ELSE Infinity

\* A magnitude test that sees no zero magnitude.
IsZeroMagnitudeNever(magnitudeSquared) == FALSE

\* cosineSimilarity line 336: magA === 0, magB === 0
IsZeroMagnitude(magnitudeSquared) == magnitudeSquared = 0

\* cosineSimilarity: 0 on an absent vector, on vectors of different lengths and on
\* a zero magnitude.
CosineSimilarity(a, b) ==
    IF a = Undefined \/ b = Undefined \/ Len(a) # Len(b) THEN Zero
    ELSE IF IsZeroMagnitude(MagnitudeSquared(a)) \/ IsZeroMagnitude(MagnitudeSquared(b))
    THEN Zero
    ELSE Quotient(DotProduct(a, b), MagnitudeSquared(a) * MagnitudeSquared(b))

\* MemoryService.search line 281: the threshold 0.65 = 13 / sqrt(400)
Threshold == Score(13, 400)

\* A threshold test that takes every entry with an embedding.
PassesThresholdAlways(score, threshold) == TRUE

\* searchMemoriesVector line 387: item.score >= threshold
PassesThreshold(score, threshold) == ScoreGeq(score, threshold)

\* searchMemoriesVector line 377: allMemories.slice(0, 10)
Slice10(all) == SubSeq(all, 1, IF Len(all) < 10 THEN Len(all) ELSE 10)

\* searchMemoriesVector(embedding, threshold) over the store's entries in key order.
SearchMemoriesVector(all, embedding, threshold) ==
    IF Len(embedding) = 0 THEN Slice10(all)
    ELSE LET withVector == SelectSeq(all, LAMBDA m : Len(m.embedding) > 0)
             kept == SelectSeq(withVector,
                        LAMBDA m : PassesThreshold(CosineSimilarity(embedding, m.embedding),
                                                   threshold))
         IN SortDescending(kept,
                [i, j \in DOMAIN kept |->
                    ScoreGeq(CosineSimilarity(embedding, kept[i].embedding),
                             CosineSimilarity(embedding, kept[j].embedding))])

\* A keyword test that compares the texts as they are written.
KeywordMatchExact(m, query) ==
    \/ Includes(m.content, query)
    \/ \E i \in DOMAIN m.tags : Includes(m.tags[i], query)

\* searchMemories line 398-400: the filter
KeywordMatch(m, query) ==
    LET lowerQ == ToLowerCase(query) IN
    \/ Includes(ToLowerCase(m.content), lowerQ)
    \/ \E i \in DOMAIN m.tags : Includes(ToLowerCase(m.tags[i]), lowerQ)

\* searchMemories(query) over the store's entries in key order.
SearchMemories(all, query) ==
    LET matched == SelectSeq(all, LAMBDA m : KeywordMatch(m, query)) IN
    SortDescending(matched,
                   [i, j \in DOMAIN matched |-> matched[i].timestamp >= matched[j].timestamp])

\* MemoryService.search(query): its model calls and its result.
SearchRun(apiKey, behaviour, query, all) ==
    LET run == GetEmbeddings(apiKey, behaviour)
        vectorResults == IF run.result.kind = "value"
                         THEN SearchMemoriesVector(all, run.result.value, Threshold)
                         ELSE <<>>
    IN Run(run.calls,
           IF Len(vectorResults) > 0 THEN Value(vectorResults)
           ELSE Value(SearchMemories(all, query)))

\* db.put('memories', entry): the store keeps its entries in key order.
PutMemory(all, entry) ==
    LET lower == SelectSeq(all, LAMBDA m : m.id < entry.id)
        higher == SelectSeq(all, LAMBDA m : m.id > entry.id)
    IN lower \o <<entry>> \o higher

\* addMemory lines 254-259: the embedding kept, [] when getEmbeddings raises.
EmbeddingOf(run) == IF run.result.kind = "value" THEN run.result.value ELSE <<>>

\* addMemory lines 261-270: newEntry
NewEntry(id, now, content, type, agentOrigin, tags, embedding) ==
    [id |-> id, timestamp |-> now, content |-> content, type |-> type,
     agentOrigin |-> agentOrigin, tags |-> tags, encryptionLevel |-> "AES-256",
     embedding |-> embedding]

\* What addMemory and search are called with.
Contents == {"Alpha Beta", "gamma"}
TagLists == {<<>>, <<"ALPHA">>}
Queries == {"alpha", "GAMMA"}
EntryIds == 1..MaxEntries

\* The clock never runs backwards: new Date() at a call is the latest timestamp
\* stored or later. A timestamp is kept as the milliseconds that toISOString
\* writes and that new Date(timestamp).getTime() reads back.
Latest(all) ==
    IF Len(all) = 0 THEN 0
    ELSE LET i == CHOOSE i \in DOMAIN all : \A j \in DOMAIN all : all[i].timestamp >= all[j].timestamp
         IN all[i].timestamp
Clock(all) == {Latest(all), Latest(all) + 1}

\* MemoryService.addMemory(content, type, agentOrigin, tags) is called and settles;
\* uuidv4() gives id, new Date() gives now.
AddMemory(apiKey, behaviour, content, tags, id, now) ==
    LET run == GetEmbeddings(apiKey, behaviour)
        newEntry == NewEntry(id, now, content, "SEMANTIC", "REASONING", tags,
                             EmbeddingOf(run))
    IN /\ Len(memories) < MaxEntries
       /\ \A i \in DOMAIN memories : memories[i].id # id
       /\ request' = [op |-> "addMemory", apiKey |-> apiKey, behaviour |-> behaviour,
                      content |-> content, tags |-> tags]
       /\ modelCalls' = run.calls
       /\ memories' = PutMemory(memories, newEntry)
       /\ response' = Value(newEntry)
       /\ UNCHANGED kidle

\* MemoryService.search(query) is called and settles.
Search(apiKey, behaviour, query) ==
    LET run == SearchRun(apiKey, behaviour, query, memories) IN
    /\ request' = [op |-> "search", apiKey |-> apiKey, behaviour |-> behaviour,
                   query |-> query]
    /\ modelCalls' = run.calls
    /\ response' = run.result
    /\ UNCHANGED <<memories, kidle>>

\* What the models may do at a call. The embedding failures of MemoryService
\* calls are one overload and one other error: getEmbeddings treats all alike.
StepBehaviours == [{PrimaryModel, FallbackModel} -> Outcomes(StepValues)]
ScanBehaviours == [{ScanModel} -> Outcomes(ScanValues)]
EmbedBehaviours == [{EmbeddingModel} -> Outcomes(Vectors)]
MemoryBehaviours ==
    [{EmbeddingModel} -> {Returns(v) : v \in Vectors} \cup
                         {Fails(e) : e \in {e \in Errors : e.status \in {503, 500}}}]
\* With API_KEY missing no model is called.
Uncalled(behaviours) == CHOOSE b \in behaviours : TRUE

\* The services over an empty Durable Store, no task dispatched. Here the store
\* 'memories' holds the complete MemoryEntry records, in key order as getAll
\* returns them.
InitServices ==
    /\ Constructed([tasks |-> 0, boots |-> 0, reloadBy |-> 0, faults |-> 0,
                    explicit |-> 0, textless |-> 0])
    /\ memories = <<>>
    /\ NoExecution
    /\ NoRequest

\* The Inference Service, call by call.
NextInference ==
    \/ \E b \in StepBehaviours : Generate(TRUE, b)
    \/ Generate(FALSE, Uncalled(StepBehaviours))
    \/ \E b \in EmbedBehaviours : Embed(TRUE, b)
    \/ Embed(FALSE, Uncalled(EmbedBehaviours))
    \/ \E b \in ScanBehaviours : Scan(TRUE, b)
    \/ Scan(FALSE, Uncalled(ScanBehaviours))

SpecInference == InitServices /\ [][NextInference]_vars

\* MemoryService, call by call.
NextMemory ==
    \/ \E b \in MemoryBehaviours, content \in Contents, tags \in TagLists,
          id \in EntryIds, now \in Clock(memories) :
            AddMemory(TRUE, b, content, tags, id, now)
    \/ \E content \in Contents, tags \in TagLists, id \in EntryIds, now \in Clock(memories) :
            AddMemory(FALSE, Uncalled(MemoryBehaviours), content, tags, id, now)
    \/ \E b \in MemoryBehaviours, query \in Queries : Search(TRUE, b, query)
    \/ \E query \in Queries : Search(FALSE, Uncalled(MemoryBehaviours), query)

SpecMemory == InitServices /\ [][NextMemory]_vars

(* --------------------------- cosineSimilarity -------------------------- *)
\* Vectors of up to VecLen components, each between -MaxComponent and MaxComponent.
VecLen == 2
MaxComponent == 2
BoundedVectors ==
    UNION {[1..n -> (0 - MaxComponent)..MaxComponent] : n \in 0..VecLen}

\* cosineSimilarity(a, b) is called and returns.
Cosine(a, b) ==
    /\ request' = [op |-> "cosineSimilarity", a |-> a, b |-> b]
    /\ modelCalls' = <<>>
    /\ response' = Value(CosineSimilarity(a, b))
    /\ UNCHANGED <<memories, kidle>>

NextVector == \E a, b \in BoundedVectors : Cosine(a, b)

SpecVector == InitServices /\ [][NextVector]_vars

(* ------------------------------ the log -------------------------------- *)
\* log line 132: the in-memory limit; boot line 84: db.getLogs(50)
InMemoryLimit == 200
RestoreLimit == 50

\* log calls and reloads observed.
MaxLogCalls == 3
MaxLogBoots == 1
\* The log calls made before the observation starts.
EarlierLogCalls == {3, 199, 200, 250}

\* The entry of the n-th log call ever made (its timestamp orders it).
Entry(n) == LogEntry("MONITORING", "entry", "INFO", n)

\* log lines 131-132: unshift, then pop when the list is longer than the limit.
Logged(list, e) ==
    LET longer == <<e>> \o list IN
    IF Len(longer) > InMemoryLimit THEN SubSeq(longer, 1, Len(longer) - 1) ELSE longer

\* db.getAllFromIndex('logs', 'by-timestamp')
ByTimestamp(db) ==
    [i \in 1..Cardinality(db) |->
        CHOOSE e \in db : Cardinality({f \in db : f.by < e.by}) = i - 1]

\* Array.prototype.reverse
Reverse(list) == [i \in 1..Len(list) |-> list[Len(list) + 1 - i]]

\* db.getLogs(limit): all.reverse().slice(0, limit)
GetLogs(db, limit) ==
    LET all == Reverse(ByTimestamp(db)) IN
    SubSeq(all, 1, IF Len(all) < limit THEN Len(all) ELSE limit)

\* What the log calls and the restore of the log leave alone.
klog == <<tasks, running, agents, proc, dbTasks, memories, preboot, faults, ghost, nextId,
          explicit, textless, limits, stale, avars, modelCalls>>

\* The log calls boot has made since the observation started.
BootLogCalls ==
    IF boots = 0 THEN 0 ELSE 3 * (boots - 1) + 2 + (IF booted THEN 1 ELSE 0)

\* log(agent, message, severity) is called, by whichever caller.
Log ==
    /\ Cardinality(dbLogs) - limits.earlier - BootLogCalls < limits.logs
    /\ LET e == Entry(Cardinality(dbLogs) + 1)
       IN logs' = Logged(logs, e) /\ dbLogs' = dbLogs \cup {e}
    /\ UNCHANGED <<booted, boots, request, response, klog>>

\* The page is reloaded: a new kernel's constructor makes the two log calls of boot.
ReloadLog ==
    /\ boots < limits.boots
    /\ boots' = boots + 1
    /\ booted' = FALSE
    /\ LET n == Cardinality(dbLogs)
       IN /\ logs' = Logged(Logged(<<>>, Entry(n + 1)), Entry(n + 2))
          /\ dbLogs' = dbLogs \cup {Entry(n + 1), Entry(n + 2)}
    /\ request' = [op |-> "none"]
    /\ response' = [kind |-> "none"]
    /\ UNCHANGED klog

\* boot line 84: db.getLogs(50) is called; the read sees the store as it is now.
GetLogsCalled ==
    /\ ~booted
    /\ request.op = "none"
    /\ request' = [op |-> "getLogs"]
    /\ response' = Value(GetLogs(dbLogs, RestoreLimit))
    /\ UNCHANGED <<logs, dbLogs, booted, boots, klog>>

\* boot lines 84-89: db.getLogs resolves, its result replaces _logs and the restore
\* is logged; or it rejects and the cold boot is logged.
GetLogsReturned(ok) ==
    /\ request.op = "getLogs"
    /\ LET e == Entry(Cardinality(dbLogs) + 1)
       IN /\ logs' = Logged(IF ok THEN response.value ELSE logs, e)
          /\ dbLogs' = dbLogs \cup {e}
    /\ booted' = TRUE
    /\ request' = [op |-> "none"]
    /\ response' = [kind |-> "none"]
    /\ UNCHANGED <<boots, klog>>

\* A kernel that booted and has made n log calls since, over a store that holds
\* them all.
InitLog ==
    /\ \E n \in EarlierLogCalls :
        /\ Runtime([tasks |-> 0, boots |-> MaxLogBoots, reloadBy |-> 0, faults |-> 0,
                    explicit |-> 0, textless |-> 0, logs |-> MaxLogCalls, earlier |-> n])
        /\ dbLogs = {Entry(i) : i \in 1..n}
        /\ logs = GetLogs(dbLogs, InMemoryLimit)
    /\ booted = TRUE
    /\ memories = {}
    /\ NoExecution
    /\ NoRequest

NextLog ==
    \/ Log
    \/ ReloadLog
    \/ GetLogsCalled
    \/ \E ok \in BOOLEAN : GetLogsReturned(ok)

SpecLog == InitLog /\ [][NextLog]_vars

(* ------------------------------ properties ----------------------------- *)
\* The record of a task id in a task list that holds it.
TaskIn(ts, id) == ts[FindIndex(ts, id)]

\* The ids of the tasks of a list whose status is IN_PROGRESS.
InProgress(ts) == {ts[i].id : i \in {j \in DOMAIN ts : ts[j].status = "IN_PROGRESS"}}

\* C1: under any interleaving of dispatches, ticks and executions the running set
\* holds at most MAX_CONCURRENT_PROCESSES ids, and while it is at capacity no step
\* (a tick included) adds an id to it or moves a task to IN_PROGRESS.
C1_RunningSetBounded ==
    [][/\ Cardinality(running) <= MAX_CONCURRENT_PROCESSES
       /\ Cardinality(running') <= MAX_CONCURRENT_PROCESSES
       /\ Cardinality(running) = MAX_CONCURRENT_PROCESSES
            => /\ running' \subseteq running
               /\ InProgress(tasks') \subseteq InProgress(tasks)]_vars

\* C1, its case: the running set is at capacity while the ticking kernel holds a
\* task that waits for a slot.
C1_AtCapacityWithPending ==
    /\ booted
    /\ Cardinality(running) = MAX_CONCURRENT_PROCESSES
    /\ \E i \in DOMAIN tasks : tasks[i].status = "QUEUED"

\* C2: in every reachable state, the states after boot has restored the task list
\* included, at most MAX_CONCURRENT_PROCESSES tasks are IN_PROGRESS.
C2_InProgressBounded ==
    Cardinality(InProgress(tasks)) <= MAX_CONCURRENT_PROCESSES

\* C3: every IN_PROGRESS task has its id in the running set, and an id is removed
\* from the running set at most once, by the end of a run that left its task
\* COMPLETED or FAILED.
C3_InProgressIsRunning ==
    /\ \A i \in DOMAIN tasks : tasks[i].status = "IN_PROGRESS" => tasks[i].id \in running
    /\ \A i \in DOMAIN tasks :
            /\ released[tasks[i].id] <= 1
            /\ released[tasks[i].id] = 1 => tasks[i].status \in {"COMPLETED", "FAILED"}

\* C4: the status of a task only moves along QUEUED or PENDING -> IN_PROGRESS ->
\* COMPLETED or FAILED, and a COMPLETED or FAILED task keeps its status.
C4_StatusTransitions ==
    [][\A id \in TaskIds :
            (FindIndex(tasks, id) # 0 /\ FindIndex(tasks', id) # 0) =>
                LET a == TaskIn(tasks, id).status
                    b == TaskIn(tasks', id).status
                IN \/ a = b
                   \/ a \in {"QUEUED", "PENDING"} /\ b = "IN_PROGRESS"
                   \/ a = "IN_PROGRESS" /\ b \in {"COMPLETED", "FAILED"}]_vars

C6_SlotReleasedAtEnd ==
    [][\A id \in TaskIds :
            (proc[id].pc # "ended" /\ proc'[id].pc = "ended") =>
                /\ id \notin running'
                /\ LET role == TaskIn(tasks, id).assignedAgent
                   IN role \in DOMAIN agents => agents'[role].status = "IDLE"]_vars

\* C7: a task whose pre-flight scan reported it unsafe, or raised, gets no memory
\* retrieval and no Agent.execute call, and once its run has ended it is FAILED and
\* the log holds an ERROR entry of that run with the reason of the rejection.
C7_RejectedFailsWithLog ==
    \A id \in rejected :
        /\ id \notin searched
        /\ id \notin executed
        /\ proc[id].pc = "ended" =>
            /\ TaskIn(tasks, id).status = "FAILED"
            /\ \E e \in logs :
                /\ e.severity = "ERROR"
                /\ e.by = id
                /\ e.message \in
                    {"Execution Exception: " \o SecurityViolation(r) : r \in Reasons}
                        \cup {"Execution Exception: Security scan failed"}

\* C8: a task, in memory or in the Durable Store, has a result only if it is
\* COMPLETED; a FAILED task has no result and progress 0, also when its execution
\* had produced text before it failed.
C8_ResultOnlyIfCompleted ==
    LET clean(t) == /\ t.result # Undefined => t.status = "COMPLETED"
                    /\ t.status = "FAILED" => (t.result = Undefined /\ t.progress = 0)
    IN /\ \A i \in DOMAIN tasks : clean(tasks[i])
       /\ \A id \in DOMAIN dbTasks : clean(dbTasks[id])

\* C8, its case: the inference step raised after an earlier turn had produced text,
\* and the task is FAILED.
C8_FailedAfterText ==
    \E id \in TaskIds :
        /\ proc[id].pc = "failwrite"
        /\ proc[id].err = "Inference failed"
        /\ proc[id].out = PartialText(id)
        /\ TaskIn(tasks, id).status = "FAILED"

\* C9: a run that ends without any step having raised leaves its task COMPLETED
\* with progress 100 and the text Agent.execute returned as result; and when a task
\* becomes COMPLETED the Durable Store already holds the EPISODIC entry tagged with
\* its id and carrying that text.
C9_CompletedWithResult ==
    [][\A id \in TaskIds :
            /\ (proc[id].pc = "okwrite" /\ proc'[id].pc = "ended") =>
                /\ TaskIn(tasks', id).status = "COMPLETED"
                /\ TaskIn(tasks', id).progress = 100
                /\ TaskIn(tasks', id).result = proc[id].out
                /\ TaskIn(tasks', id).result # Undefined
                /\ id \in searched /\ id \in executed /\ id \notin rejected
            /\ (/\ FindIndex(tasks, id) # 0
                /\ FindIndex(tasks', id) # 0
                /\ TaskIn(tasks, id).status # "COMPLETED"
                /\ TaskIn(tasks', id).status = "COMPLETED") =>
                /\ EpisodicEntry(TaskIn(tasks', id), TaskIn(tasks', id).result) \in memories'
                /\ TaskIn(tasks', id).progress = 100
                /\ TaskIn(tasks', id).result = proc[id].out]_vars

\* C9, its case: a run has ended, its task is COMPLETED with the final text of the
\* execution as result and the store holds the EPISODIC entry.
C9_CompletedTask ==
    \E id \in TaskIds :
        /\ proc[id].pc = "ended"
        /\ released[id] = 1
        /\ FindIndex(tasks, id) # 0
        /\ TaskIn(tasks, id).status = "COMPLETED"
        /\ TaskIn(tasks, id).result = FinalText(id)
        /\ EpisodicEntry(TaskIn(tasks, id), FinalText(id)) \in memories

\* The role lacks a permission the registered tool requires.
LacksPermission(agentType, toolName) ==
    /\ toolName \in DOMAIN ToolRegistry
    /\ \E perm \in ToolRegistry[toolName].requiredPermissions :
            perm \notin AGENT_PERMISSIONS[agentType]

\* C10: a call of a tool of which the role lacks a required permission leaves every
\* handler's invocation count unchanged and appends the "SECURITY BLOCK" string as
\* the tool's result; the loop goes on (the next call, the next turn, or the return
\* at MAX_TURNS) and the result is part of the entry pushed to history.
C10_DeniedCallBlocked ==
    [][(epc = "tools" /\ LacksPermission(config, Head(functionCalls))) =>
            LET toolName == Head(functionCalls)
                blocked == Part("functionResponse", toolName,
                                "SECURITY BLOCK: Access denied to " \o toolName)
            IN /\ invoked' = invoked
               /\ toolResponseParts' = Append(toolResponseParts, blocked)
               /\ functionCalls' = Tail(functionCalls)
               /\ epc' \in {"tools", "step", "returned"}
               /\ epc' = "returned" => turnCount' = MAX_TURNS
               /\ epc' # "tools" => history' = Append(history, Content("user", toolResponseParts'))
               /\ UNCHANGED <<tasks, logs, memories>>
               /\ \A t \in DOMAIN ToolRegistry :
                        LacksPermission(config, t) => invoked'[t] = 0]_vars

\* C10, its case: the history holds the "SECURITY BLOCK" result of a registered tool
\* the role may not use, that tool's handler was never invoked, and the loop went on
\* to a later turn.
C10_BlockedThenContinued ==
    /\ epc = "step"
    /\ turnCount >= 2
    /\ \E toolName \in DOMAIN ToolRegistry :
            /\ LacksPermission(config, toolName)
            /\ invoked[toolName] = 0
            /\ Part("functionResponse", toolName,
                    "SECURITY BLOCK: Access denied to " \o toolName)
                    \in {history[3].parts[k] : k \in DOMAIN history[3].parts}

\* C11: validateAccess fails closed: for a tool name that is not in the registry it
\* returns false, and for a registered tool it returns true exactly when every
\* permission the tool requires is granted to the role (stated for every role and
\* tool name a function call reaches it with).
C11_FailsClosed ==
    epc = "tools" =>
        LET toolName == Head(functionCalls) IN
        /\ ~ValidateAccessRaises(toolName)
        /\ toolName \notin DOMAIN ToolRegistry => ~ValidateAccess(config, toolName)
        /\ toolName \in DOMAIN ToolRegistry =>
                (ValidateAccess(config, toolName)
                    <=> ToolRegistry[toolName].requiredPermissions
                            \subseteq AGENT_PERMISSIONS[config])

\* C12: an exception that leaves the handler of an authorized tool does not leave
\* the loop: the tool's result is the message prefixed "Error: ", it is appended to
\* the tool responses (which are pushed to history after the last call) and the
\* loop goes on with the remaining calls or the next turn.
C12_HandlerErrorContained ==
    [][handlerErrors' > handlerErrors =>
            LET toolName == Head(functionCalls)
                failed == Part("functionResponse", toolName, "Error: " \o HandlerMessage)
            IN /\ ValidateAccess(config, toolName)
               /\ invoked'[toolName] = invoked[toolName] + 1
               /\ toolResponseParts' = Append(toolResponseParts, failed)
               /\ functionCalls' = Tail(functionCalls)
               /\ epc' # "raised"
               /\ functionCalls' # <<>> => epc' = "tools"
               /\ functionCalls' = <<>> =>
                    /\ history' = Append(history, Content("user", toolResponseParts'))
                    /\ turnCount' = turnCount + 1
                    /\ epc' = IF turnCount' < MAX_TURNS THEN "step" ELSE "returned"]_vars

\* C12, its case: a handler raised in a turn, the "Error: " result is in the entry
\* pushed to history and the loop has reached the next turn.
C12_ErrorThenNextTurn ==
    /\ epc = "step"
    /\ handlerErrors >= 1
    /\ turnCount >= 1
    /\ \E k \in DOMAIN history[3].parts :
            /\ history[3].parts[k].kind = "functionResponse"
            /\ history[3].parts[k].content = "Error: " \o HandlerMessage

\* C13: Agent.execute calls the inference step at most MAX_TURNS times, whatever
\* the responses: a call is only made after fewer than MAX_TURNS calls, every one
\* of which requested tool calls, and an invocation that has not ended can always
\* take its next step.
C13_AtMostMaxTurnsSteps ==
    /\ stepCalls <= MAX_TURNS
    /\ epc = "step" => (stepCalls < MAX_TURNS /\ stepCalls = turnCount)
    /\ epc = "tools" => (stepCalls = turnCount + 1 /\ functionCalls # <<>>)
    /\ epc \in {"step", "tools"} => ENABLED NextAgent

\* C13, its case: every one of MAX_TURNS responses requested a tool call and the
\* invocation has returned.
C13_ReturnedAtLimit ==
    /\ epc = "returned"
    /\ stepCalls = MAX_TURNS
    /\ turnCount = MAX_TURNS

\* The responses that requested tool calls (each pushed a model entry).
ToolTurns == Cardinality({i \in DOMAIN history : history[i].role = "model"})

\* s ends with the suffix.
EndsWith(s, suffix) ==
    /\ Len(s) >= Len(suffix)
    /\ SubSeq(s, Len(s) - Len(suffix) + 1, Len(s)) = suffix

\* C14: the output Agent.execute returns ends with the truncation notice exactly
\* when MAX_TURNS responses requested tool calls; an invocation ended by a response
\* without tool calls returns finalOutput without the notice.
C14_NoticeIffTruncated ==
    epc = "returned" =>
        (EndsWith(finalOutput, "\n[SYSTEM NOTE: Maximum execution turns reached.]")
            <=> ToolTurns = MAX_TURNS)

\* C14, its case: MAX_TURNS responses requested tool calls, the last text is kept
\* and the returned output ends with the notice.
C14_TruncatedWithNotice ==
    /\ epc = "returned"
    /\ ToolTurns = MAX_TURNS
    /\ finalOutput = TurnText(MAX_TURNS - 1) \o TurnsNote

\* An overload signal as the Inference Service contract words it.
OverloadSignal(error) ==
    error.status \in {503, 429} \/ Includes(error.message, "overloaded")

\* An inference step whose client was built is observed.
StepObserved == request.op = "runAgentExecutionStep" /\ request.apiKey

\* C15: when the primary-model call of an inference step fails with an overload
\* signal (status 503 or 429, or a message containing "overloaded") and the
\* fallback-model call succeeds, the step returns the fallback's result and
\* exactly two model calls are made, the primary's then the fallback's.
C15_OverloadAnsweredByFallback ==
    (/\ StepObserved
     /\ ~request.behaviour[PrimaryModel].ok
     /\ OverloadSignal(request.behaviour[PrimaryModel].error)
     /\ request.behaviour[FallbackModel].ok)
    => /\ response = Value(request.behaviour[FallbackModel].value)
       /\ Len(modelCalls) = 2
       /\ modelCalls[1].model = PrimaryModel
       /\ modelCalls[2].model = FallbackModel

\* A step answered by the fallback model after a rate-limit (429) failure of the
\* primary model.
C15_FallbackAnswered ==
    /\ StepObserved
    /\ ~request.behaviour[PrimaryModel].ok
    /\ request.behaviour[PrimaryModel].error.status = 429
    /\ response = Value("flash text")
    /\ Len(modelCalls) = 2

\* C16: model fallback is a single retry: a primary failure that is not of the
\* overload class propagates unchanged after exactly one model call, a fallback
\* failure propagates unchanged after exactly two, and no inference step makes
\* more than two model calls.
C16_SingleRetry ==
    StepObserved =>
        LET first == request.behaviour[PrimaryModel]
            second == request.behaviour[FallbackModel]
        IN /\ (~first.ok /\ ~OverloadSignal(first.error))
                => (Len(modelCalls) = 1 /\ response = Raise(first.error))
           /\ (~first.ok /\ OverloadSignal(first.error) /\ ~second.ok)
                => (Len(modelCalls) = 2 /\ response = Raise(second.error))
           /\ Len(modelCalls) <= 2

\* A step whose primary call was overloaded and whose fallback call failed too.
C16_FallbackFailed ==
    /\ StepObserved
    /\ Len(modelCalls) = 2
    /\ ~modelCalls[1].outcome.ok
    /\ ~modelCalls[2].outcome.ok
    /\ response = Raise(modelCalls[2].outcome.error)

\* C17: the primary-then-fallback policy applies to every Inference Service call:
\* an overload failure of the model first called by an embedding call or by the
\* pre-flight safety scan is retried once against a fallback model, so that two
\* model calls are made.
C17_EveryCallFallsBack ==
    (/\ request.op \in {"getEmbeddings", "securityScan"}
     /\ request.apiKey
     /\ Len(modelCalls) > 0
     /\ ~modelCalls[1].outcome.ok
     /\ OverloadSignal(modelCalls[1].outcome.error))
    => Len(modelCalls) = 2

\* text contains q as a substring, letter case ignored.
ContainsIgnoringCase(text, q) ==
    \E i \in 1..(Len(text) - Len(q) + 1) :
        ToLowerCase(SubSeq(text, i, i + Len(q) - 1)) = ToLowerCase(q)

\* The entries of a list, and a list without repetition.
Entries(list) == {list[i] : i \in DOMAIN list}
Distinct(list) == \A i, j \in DOMAIN list : list[i] = list[j] => i = j

\* A MemoryService.search call is observed; the vector its phase 1 worked with,
\* if getEmbeddings returned one.
SearchObserved == request.op = "search"
QueryVector ==
    IF request.behaviour[EmbeddingModel].ok THEN request.behaviour[EmbeddingModel].value
    ELSE NullVector
VectorPhaseRaised == ~request.apiKey
VectorPhaseEmpty ==
    request.apiKey /\ Len(SearchMemoriesVector(memories, QueryVector, Threshold)) = 0

CosineAtLeast65(a, b) ==
    /\ Len(a) = Len(b)
    /\ DotProduct(a, a) > 0
    /\ DotProduct(b, b) > 0
    /\ DotProduct(a, b) > 0
    /\ 400 * DotProduct(a, b) * DotProduct(a, b) >= 169 * DotProduct(a, a) * DotProduct(b, b)

\* a is at least as close to q as b is, both at an acute angle to q.
CloserOrEqual(q, a, b) ==
    DotProduct(q, a) * DotProduct(q, a) * DotProduct(b, b)
        >= DotProduct(q, b) * DotProduct(q, b) * DotProduct(a, a)

\* The stored entries the query vector is similar to.
SimilarEntries ==
    {m \in Entries(memories) : Len(m.embedding) > 0 /\ CosineAtLeast65(QueryVector, m.embedding)}

\* C19: when at least one stored entry with a non-empty embedding has cosine
\* similarity >= 0.65 to the query vector, search returns exactly the entries
\* with a non-empty embedding and similarity >= 0.65, each once, in descending
\* order of similarity; entries without an embedding are not returned.
C19_VectorResults ==
    (SearchObserved /\ request.apiKey /\ SimilarEntries # {})
    => /\ response.kind = "value"
       /\ Entries(response.value) = SimilarEntries
       /\ Distinct(response.value)
       /\ \A i \in DOMAIN response.value : Len(response.value[i].embedding) > 0
       /\ \A i, j \in DOMAIN response.value :
            i < j => CloserOrEqual(QueryVector, response.value[i].embedding,
                                   response.value[j].embedding)

\* A vector search that returned two entries, the closer one first although the
\* store holds it second.
C19_CloserFirst ==
    /\ SearchObserved
    /\ request.apiKey
    /\ Len(response.value) = 2
    /\ Entries(response.value) = SimilarEntries
    /\ response.value[1].id > response.value[2].id
    /\ ~CloserOrEqual(QueryVector, response.value[2].embedding, response.value[1].embedding)

\* A MemoryService.addMemory call is observed; its embedding computation failed.
AddObserved == request.op = "addMemory"
EmbeddingFailed == ~request.apiKey \/ ~request.behaviour[EmbeddingModel].ok

\* C20: MemoryService.addMemory persists the entry and returns it even when the
\* embedding computation fails, and in that case the stored entry has an empty
\* embedding vector.
C20_FailedEmbeddingStoredEmpty ==
    (AddObserved /\ EmbeddingFailed)
    => /\ response.kind = "value"
       /\ response.value \in Entries(memories)
       /\ response.value.content = request.content
       /\ response.value.embedding = <<>>

\* A cosineSimilarity call is observed; a vector of zero magnitude.
CosineObserved == request.op = "cosineSimilarity"
ZeroMagnitude(v) == \A i \in DOMAIN v : v[i] = 0

\* C21: cosineSimilarity(a, b) is exactly 0 whenever a or b has zero magnitude
\* (all components 0, or empty), and for every pair of vectors it returns a
\* number: it raises no error and yields neither NaN nor an infinite value.
C21_ZeroMagnitudeGivesZero ==
    CosineObserved =>
        /\ response.kind = "value"
        /\ response.value.den2 > 0
        /\ (ZeroMagnitude(request.a) \/ ZeroMagnitude(request.b)) => response.value = Zero

\* The similarity of a non-zero vector and the zero vector of its length.
C21_AgainstZeroVector ==
    /\ CosineObserved
    /\ Len(request.a) = VecLen
    /\ Len(request.b) = VecLen
    /\ ~ZeroMagnitude(request.a)
    /\ ZeroMagnitude(request.b)
    /\ response = Value(Zero)

\* C22: for every pair of non-zero vectors of equal length, cosineSimilarity(a, b)
\* = cosineSimilarity(b, a) and the value lies in [-1, 1]: the square of the
\* numerator is at most the square of the denominator.
C22_SymmetricAndBounded ==
    (/\ CosineObserved
     /\ Len(request.a) = Len(request.b)
     /\ ~ZeroMagnitude(request.a)
     /\ ~ZeroMagnitude(request.b))
    => /\ response.value = CosineSimilarity(request.b, request.a)
       /\ response.value.den2 > 0
       /\ response.value.num * response.value.num <= response.value.den2

\* The similarity of two different vectors pointing the same way: exactly 1.
C22_ParallelVectors ==
    /\ CosineObserved
    /\ request.a # request.b
    /\ Len(request.a) = VecLen
    /\ Len(request.b) = VecLen
    /\ response.value.num > 0
    /\ response.value.num * response.value.num = response.value.den2

\* The ids of the tasks of a list.
IdsOf(ts) == {ts[i].id : i \in DOMAIN ts}

\* C23: dispatchTask appends exactly one new task at the end of the task list, with
\* a fresh id, status QUEUED, progress 0, no result, and priority MEDIUM when the
\* draft gives none; it persists that task, emits a change notification, and
\* leaves every existing task unchanged.
C23_DispatchAppendsOne ==
    [][nextId' = nextId + 1 =>
        LET t == tasks'[Len(tasks')] IN
        /\ Len(tasks') = Len(tasks) + 1
        /\ SubSeq(tasks', 1, Len(tasks)) = tasks
        /\ t.id \notin IdsOf(tasks) \cup DOMAIN dbTasks
        /\ t.status = "QUEUED"
        /\ t.progress = 0
        /\ t.result = Undefined
        /\ (t.assignedAgent = "PLANNER" => t.priority = "MEDIUM")
        /\ t.id \in DOMAIN dbTasks'
        /\ dbTasks'[t.id] = t
        /\ ~stale']_vars

\* C24: admission order is insertion order: whenever a tick admits a task, it is
\* the earliest-dispatched task that is PENDING or QUEUED and not in the running
\* set (ids are issued in dispatch order), whatever the priorities.
C24_AdmittedIsEarliestEligible ==
    [][\A id \in TaskIds :
        started'[id] = started[id] + 1 =>
            \A i \in DOMAIN tasks : Eligible(tasks[i]) => id <= tasks[i].id]_vars

\* C25: after any sequence of log calls and boot restorations the in-memory log
\* list holds at most 200 entries, newest first, and they are the most recently
\* logged entries; every entry of it is in the Durable Store, which logging never
\* trims (the store holds the entry of every log call made).
C25_LogListIsNewest ==
    /\ Len(logs) <= InMemoryLimit
    /\ \A i, j \in DOMAIN logs : i < j => logs[i].by > logs[j].by
    /\ \A i \in DOMAIN logs : logs[i] = Entry(Cardinality(dbLogs) + 1 - i)
    /\ \A i \in DOMAIN logs : logs[i] \in dbLogs
    /\ dbLogs = {Entry(n) : n \in 1..Cardinality(dbLogs)}

\* The put of the task's rewritten record is pending.
PutPending(id) == proc[id].pc \in {"mark", "okwrite", "failwrite"}

\* Every task record of the list whose put is not pending is in the store as the
\* list has it, every log entry of the list is in the store, and a mutation that
\* is not announced yet has a put pending whose return announces it.
PersistedAndAnnounced ==
    /\ \A i \in DOMAIN tasks :
            \/ PutPending(tasks[i].id)
            \/ /\ tasks[i].id \in DOMAIN dbTasks
               /\ dbTasks[tasks[i].id] = tasks[i]
    /\ logs \subseteq dbLogs
    /\ stale => \E id \in TaskIds : PutPending(id)

\* C26: every mutation of a Task, an AgentRuntimeStatus or a SystemLogEntry made by
\* the scheduler is written to the Durable Store and is followed by a change
\* notification: after every step the records of the list are in the store and
\* announced (or their put is pending), and a step that rewrites an agent's status
\* writes to the store.
C26_MutationsPersistedAndAnnounced ==
    [][/\ PersistedAndAnnounced'
       /\ (agents' # agents /\ boots' = boots) => <<dbTasks', dbLogs'>> # <<dbTasks, dbLogs>>]_vars

\* MemoryService.clearMemory(): db.clearAll() clears the object stores memories,
\* tasks and logs; the kernel's lists are not touched.
ClearMemory ==
    /\ Quiet
    /\ dbTasks # <<>> \/ dbLogs # {} \/ memories # {}
    /\ memories' = {}
    /\ dbTasks' = <<>>
    /\ dbLogs' = {}
    /\ UNCHANGED <<tasks, running, agents, logs, booted, proc, preboot, faults, ghost,
                   meta, stale>>
    /\ UNCHANGED <<avars, svars>>

ClearTasks == 2
ClearBoots == 1
ClearFaults == 1

InitClear ==
    /\ InitWith([tasks |-> ClearTasks, boots |-> ClearBoots, reloadBy |-> ClearTasks,
                 faults |-> ClearFaults, explicit |-> 0, textless |-> 0])
    /\ NoExecution
    /\ NoRequest

\* The scheduler next to the memory vault's clear button.
NextClear == Next \/ ClearMemory

SpecClear == InitClear /\ [][NextClear]_vars

\* C27: tasks only accumulate: no step of one kernel instance (a tick, an
\* execution step, a log call, boot's restoration, a memory clear) removes a task
\* from the task list or from the Durable Store.
C27_TasksOnlyAccumulate ==
    [][boots' = boots =>
          /\ IdsOf(tasks) \subseteq IdsOf(tasks')
          /\ DOMAIN dbTasks \subseteq DOMAIN dbTasks']_vars

LiveTasks == 3

\* One kernel instance from its construction on; no collaborator fails.
InitLive ==
    /\ InitWith([tasks |-> LiveTasks, boots |-> 0, reloadBy |-> 0,
                 faults |-> 0, explicit |-> 0, textless |-> 0])
    /\ NoExecution
    /\ NoRequest

\* A step of the scheduler itself: boot's restoration, the interval's tick, the
\* return of a call that a process awaits.
Scheduled ==
    \/ \E up \in BOOLEAN : BootRestored("ok", up)
    \/ Tick
    \/ \E id \in TaskIds : MarkWritten(id, TRUE)
    \/ \E id \in TaskIds : ScanReturned(id, "safe")
    \/ \E id \in TaskIds : SearchReturned(id, TRUE)
    \/ \E id \in TaskIds : ExecTurn(id)
    \/ \E id \in TaskIds : ExecReturned(id, TRUE)
    \/ \E id \in TaskIds : CommitReturned(id, TRUE)
    \/ \E id \in TaskIds : CompletedWritten(id, TRUE)

NextLive == DispatchTask("PLANNER", TRUE) \/ Scheduled

\* The interval keeps firing and every awaited call returns; nothing obliges
\* the user to dispatch.
SpecLive == InitLive /\ [][NextLive]_vars /\ WF_vars(Scheduled)

Finished(id) ==
    \E i \in DOMAIN tasks : tasks[i].id = id /\ tasks[i].status \in {"COMPLETED", "FAILED"}

\* C28: while ticks keep firing and every external call returns, every dispatched
\* task is eventually admitted and reaches COMPLETED or FAILED, whenever
\* dispatchTask was called relative to boot.
C28_EveryDispatchedTaskFinishes ==
    \A id \in 1..LiveTasks : [](nextId >= id => <>(started[id] > 0 /\ Finished(id)))

\* The tasks whose runProcess this step has called.
Admitted == {id \in TaskIds : started'[id] > started[id]}

\* The tasks whose runProcess is awaiting a call.
InFlight == {id \in TaskIds : proc[id].pc \notin {"none", "ended"}}

\* C29: a tick admits at most one task, and it starts the task's process without
\* waiting for it or for any process in flight: the step that admits a task adds
\* that one id to the running set, moves that one task to IN_PROGRESS and leaves
\* every other process where it is.
C29_OneAdmissionPerTick ==
    [][/\ Cardinality(Admitted) <= 1
       /\ \A id \in Admitted :
            /\ running' = running \cup {id}
            /\ InProgress(tasks') = InProgress(tasks) \cup {id}
            /\ id \notin InFlight
            /\ \A other \in TaskIds \ {id} : proc'[other] = proc[other]]_vars

\* C29, its case: five tasks are IN_PROGRESS at once, each admitted by its own
\* tick while the earlier ones were still in flight.
C29_FiveInProgress ==
    /\ Cardinality(InProgress(tasks)) = 5
    /\ InProgress(tasks) \subseteq InFlight
    /\ InProgress(tasks) = running

\* C30: the status record of a role reflects only the most recent write, whatever
\* other tasks of the role are running: the process that has marked its task
\* IN_PROGRESS writes EXECUTING with its title, the process that ends writes IDLE,
\* and no other step of the instance rewrites the record.
C30_LastWriteWins ==
    [][boots' = boots =>
        \A role \in AgentType :
            LET marked == {id \in TaskIds : /\ proc[id].pc = "mark" /\ proc'[id].pc = "scan"
                                            /\ TaskOf(id).assignedAgent = role}
                ended == {id \in TaskIds : /\ released'[id] > released[id]
                                           /\ TaskOf(id).assignedAgent = role}
            IN /\ \A id \in marked :
                    agents'[role] = [status |-> "EXECUTING", currentTask |-> TaskOf(id).title]
               /\ \A id \in ended :
                    agents'[role] = [status |-> "IDLE", currentTask |-> Undefined]
               /\ marked \cup ended = {} => agents'[role] = agents[role]]_vars

\* C30, its case: a task of the role has ended and the role's record is IDLE while
\* another task of the role, which wrote EXECUTING, is still IN_PROGRESS.
C30_IdleWhileInProgress ==
    \E role \in AgentType, first, second \in TaskIds :
        /\ first # second
        /\ first \in IdsOf(tasks) /\ second \in IdsOf(tasks)
        /\ TaskOf(first).assignedAgent = role
        /\ TaskOf(second).assignedAgent = role
        /\ released[first] > 0
        /\ second \in running
        /\ TaskOf(second).status = "IN_PROGRESS"
        /\ proc[second].pc \notin {"none", "mark", "ended"}
        /\ agents[role].status = "IDLE"

(* -------------------------- updateTaskStatus --------------------------- *)
\* Tasks in the list when updateTaskStatus is called.
UpdateTasks == 2

Statuses == {"PENDING", "QUEUED", "IN_PROGRESS", "COMPLETED", "FAILED"}

\* The list of a running kernel: a task dispatched without a parent and a
\* sub-task of it for another role, in either order of the list.
InitUpdate ==
    /\ Idle([tasks |-> UpdateTasks, boots |-> 0, reloadBy |-> 0, faults |-> 0,
             explicit |-> 0, textless |-> 0])
    /\ \E up \in BOOLEAN :
         LET first == TaskWithParent(1, "PLANNER", NoParent)
             second == TaskWithParent(UpdateTasks, "CODING", Parent(1))
         IN /\ tasks = IF up THEN <<first, second>> ELSE <<second, first>>
            /\ dbTasks = (1 :> first) @@ (UpdateTasks :> second)
    /\ nextId = UpdateTasks
    /\ booted = TRUE
    /\ logs = Fresh.logs
    /\ dbLogs = BootLogs
    /\ memories = {}
    /\ NoExecution
    /\ NoRequest

\* updateTaskStatus(taskId, status, progress, result), lines 219-226, with the put
\* resolved; the call is kept in `request`.
UpdateStatus(id, status, progress, result) ==
    /\ request' = [op |-> "updateTaskStatus", id |-> id, status |-> status,
                   progress |-> progress, result |-> result]
    /\ tasks' = UpdateTaskStatus(tasks, id, status, progress, result)
    /\ dbTasks' = PutTask(dbTasks, tasks', id)
    /\ stale' = IF FindIndex(tasks, id) = 0 THEN stale ELSE FALSE
    /\ UNCHANGED <<running, agents, logs, booted, proc, dbLogs, memories, preboot, faults,
                   ghost, meta, avars, modelCalls, response>>

NextUpdate ==
    \E id \in 1..(UpdateTasks + 1), status \in Statuses, progress \in {0, 100},
       result \in {Undefined, FinalText(1)} : UpdateStatus(id, status, progress, result)

SpecUpdate == InitUpdate /\ [][NextUpdate]_vars

\* The fields of a task that no status update writes.
Identity(t) ==
    [id |-> t.id, title |-> t.title, description |-> t.description,
     assignedAgent |-> t.assignedAgent, priority |-> t.priority,
     timestamp |-> t.timestamp, parentId |-> t.parentId]

\* C31: a status update changes only the status, progress and result of the one
\* task with the given id: the other fields of that task, the positions in the
\* list and every other task are as before, and an update for an unknown id
\* changes nothing, in the list and in the store.
C31_UpdateChangesOneTask ==
    [][request'.op = "updateTaskStatus" =>
        /\ Len(tasks') = Len(tasks)
        /\ \A i \in DOMAIN tasks :
             /\ Identity(tasks'[i]) = Identity(tasks[i])
             /\ IF tasks[i].id = request'.id
                THEN /\ tasks'[i].status = request'.status
                     /\ tasks'[i].progress = request'.progress
                     /\ tasks'[i].result = request'.result
                ELSE tasks'[i] = tasks[i]
        /\ \A t \in DOMAIN dbTasks' :
             /\ t \in DOMAIN dbTasks
             /\ IF t = request'.id THEN dbTasks'[t] = tasks'[FindIndex(tasks', t)]
                ELSE dbTasks'[t] = dbTasks[t]
        /\ request'.id \notin IdsOf(tasks) => tasks' = tasks /\ dbTasks' = dbTasks]_vars

\* C31, its cases: a sub-task that is not the first of the list has been updated
\* to COMPLETED with a result, and the last call named an id that is not in the
\* list.
C31_UpdatedAndUnknown ==
    /\ request.op = "updateTaskStatus"
    /\ request.id \notin IdsOf(tasks)
    /\ \E i \in DOMAIN tasks :
         /\ i > 1
         /\ tasks[i].parentId # NoParent
         /\ tasks[i].status = "COMPLETED"
         /\ tasks[i].result = FinalText(1)

\* The function calls a model entry lists, in its order.
CallsOf(entry) == SelectSeq(entry.parts, LAMBDA part : part.kind = "functionCall")

\* The entry is the answer to the calls of the model entry: one functionResponse
\* per call, in the order of the calls, each with a textual result (of the
\* handler, of its exception, or the block).
Answers(entry, model) ==
    LET calls == CallsOf(model) IN
    /\ entry.role = "user"
    /\ Len(entry.parts) = Len(calls)
    /\ \A i \in DOMAIN calls :
         /\ entry.parts[i].kind = "functionResponse"
         /\ entry.parts[i].name = calls[i].name
         /\ entry.parts[i].content \in
                {ToolOutput(calls[i].name), HandlerError, SecurityBlock(calls[i].name)}

\* Whenever a model call is due or execute has returned, the history is the
\* system prompt followed by one pair of entries per finished turn.
PairedHistory ==
    epc \in {"step", "returned"} =>
        /\ Len(history) = 1 + 2 * turnCount
        /\ \A k \in 1..turnCount :
             /\ history[2 * k].role = "model"
             /\ CallsOf(history[2 * k]) # <<>>
             /\ Answers(history[2 * k + 1], history[2 * k])

\* C32: within one Agent.execute the turns are strictly sequential (a model call
\* is made only when every earlier turn has its results in the history), and for
\* every response that requests tool calls the history holds, before the next
\* model call, one model entry listing the calls in request order and one entry
\* with exactly one textual result per call, in the same order, whether the call
\* was executed, blocked or raised.
C32_HistoryBeforeNextCall ==
    [][/\ PairedHistory'
       /\ stepCalls' # stepCalls =>
            /\ epc = "step"
            /\ stepCalls' = stepCalls + 1
            /\ stepCalls = turnCount
            /\ functionCalls' # <<>> =>
                 /\ history' = Append(history, history'[Len(history')])
                 /\ [i \in DOMAIN functionCalls' |->
                        CallsOf(history'[Len(history')])[i].name] = functionCalls']_vars

\* C32, its case: the next model call is due after a turn whose first call was
\* blocked and whose second call raised.
C32_BlockedAndRaisedAnswered ==
    /\ epc = "step"
    /\ turnCount > 0
    /\ LET entry == history[Len(history)] IN
         /\ Len(entry.parts) = 2
         /\ entry.parts[1].content = SecurityBlock("fetch_url")
         /\ entry.parts[2].content = HandlerError

\* The texts the model produced on the turns that also requested tool calls (the
\* model entry of such a turn starts with its text).
EarlierTexts ==
    {history[k].parts[1].content :
        k \in {j \in DOMAIN history : /\ history[j].role = "model"
                                      /\ history[j].parts[1].kind = "text"}}

\* C33: the output Agent.execute returns contains the text of every turn that
\* produced text: the text of an earlier turn is still in it after a later turn
\* has produced text.
C33_OutputHoldsEveryText ==
    epc = "returned" => \A text \in EarlierTexts : Includes(finalOutput, text)

\* C34: every entry MemoryService.search returns, for every query embedding the
\* Inference Service may return (an empty vector included), either has a non-empty
\* embedding with cosine similarity >= 0.65 to the query vector or contains the
\* query as a case-insensitive substring of its content or of one of its tags.
C34_ReturnedEntriesMatch ==
    (SearchObserved /\ response.kind = "value")
    => \A i \in DOMAIN response.value :
         LET m == response.value[i] IN
         \/ /\ request.apiKey
            /\ Len(m.embedding) > 0
            /\ CosineAtLeast65(QueryVector, m.embedding)
         \/ ContainsIgnoringCase(m.content, request.query)
         \/ \E t \in DOMAIN m.tags : ContainsIgnoringCase(m.tags[t], request.query)

\* The tool whose call this step has answered with SECURITY BLOCK, if it has.
DeniedNow ==
    {n \in CallNames :
        toolResponseParts' = Append(toolResponseParts,
                                    Part("functionResponse", n, SecurityBlock(n)))}

\* C35: every denied authorization check, whether the tool is unregistered or the
\* role lacks a required permission, produces a WARNING-level SystemLogEntry that
\* names the role and the tool.
C35_DenialIsLogged ==
    [][\A n \in DeniedNow :
          \E e \in logs' \ logs :
              /\ e.severity = "WARNING"
              /\ e \in dbLogs'
              /\ e.agent = config \/ Includes(e.message, config)
              /\ Includes(e.message, n)]_vars

\* C36: a sub-task created by the delegate_task tool records the delegating task
\* as its parent. Under SpecAgent the task list is empty when execute is called,
\* so every task of the list was dispatched by the delegate_task handler of this
\* execution: each has a parentId.
C36_SubTaskHasParent ==
    \A i \in DOMAIN tasks :
        /\ tasks[i].parentId # NoParent
        /\ tasks[i].id \in DOMAIN dbTasks => dbTasks[tasks[i].id].parentId # NoParent

\* C37: an EPISODIC task-output entry tagged with a task's id is stored only for a
\* task that ends COMPLETED: no task whose process has ended with the task FAILED,
\* whatever step failed, has left such an entry in the Memory Store.
C37_NoEntryOfFailedTask ==
    \A i \in DOMAIN tasks :
        (tasks[i].status = "FAILED" /\ proc[tasks[i].id].pc = "ended")
        => ~\E m \in memories : m.type = "EPISODIC" /\ m.tag = tasks[i].id

\* AgentFactory.createAgent: the allowedTools of the Agent built for each type
\* (initializeRuntime builds one for every AgentType).
AllowedTools(agentType) ==
    CASE agentType = "PLANNER" ->
            {"search_memory", "save_memory", "system_status", "broadcast_alert",
             "delegate_task", "execute_javascript"}
      [] agentType = "CODING" ->
            {"search_memory", "save_memory", "analyze_code", "delegate_task",
             "execute_javascript"}
      [] agentType = "SECURITY" ->
            {"search_memory", "save_memory", "system_status", "analyze_code",
             "broadcast_alert"}
      [] agentType = "AUTOMATION" ->
            {"search_memory", "save_memory", "broadcast_alert", "execute_javascript"}
      [] agentType = "REASONING" -> {"search_memory", "save_memory", "execute_javascript"}
      [] OTHER -> {"search_memory", "save_memory"}

\* C38: a tool handler is invoked during a role's execution only if the tool is
\* among the role's declared allowedTools, even when the role holds the
\* permissions the tool requires.
C38_InvokedOnlyIfAllowed ==
    \A n \in CallNames : invoked[n] > 0 => n \in AllowedTools(config)

\* C39: the static configuration is consistent: every tool in the allowedTools of
\* the executing role is registered and authorized for the role by validateAccess,
\* and no call of such a tool has been answered with SECURITY BLOCK.
C39_DeclaredToolsAuthorized ==
    /\ \A n \in AllowedTools(config) :
         n \in DOMAIN ToolRegistry /\ ValidateAccess(config, n)
    /\ \A i \in DOMAIN toolResponseParts :
         toolResponseParts[i].name \in AllowedTools(config)
            => toolResponseParts[i].content # SecurityBlock(toolResponseParts[i].name)

\* The tasks of the role that runProcess was called for and whose finally block
\* has not run yet.
AdmittedNotReleased(role) ==
    {id \in TaskIds : /\ id \in IdsOf(tasks)
                      /\ TaskOf(id).assignedAgent = role
                      /\ started[id] > released[id]}

\* C40: whenever the running set is empty and no runProcess is in flight, every
\* role is IDLE with no current task; a role is EXECUTING only while at least one
\* task of the role has been admitted and not yet released.
C40_IdleAtRest ==
    /\ (running = {} /\ InFlight = {}) =>
            \A role \in AgentType :
                agents[role] = [status |-> "IDLE", currentTask |-> Undefined]
    /\ \A role \in AgentType :
            agents[role].status = "EXECUTING" => AdmittedNotReleased(role) # {}

\* C40, its case: the kernel is at rest after one task of a role has ended
\* COMPLETED and another has ended FAILED.
C40_AtRestAfterExecutions ==
    /\ running = {}
    /\ InFlight = {}
    /\ \E i, j \in DOMAIN tasks :
         /\ tasks[i].assignedAgent = tasks[j].assignedAgent
         /\ tasks[i].status = "COMPLETED" /\ released[tasks[i].id] > 0
         /\ tasks[j].status = "FAILED" /\ released[tasks[j].id] > 0
    /\ \A role \in AgentType : agents[role].status = "IDLE"

====
